---- MODULE Spec2Model ----
(***************************************************************************)
(* Exception handling and stack unwinding of the Ymir runtime.            *)
(*                                                                         *)
(* The repository holds several generations of the runtime; three of them *)
(* are modelled here, each with its own specification:                    *)
(*   SpecExc   src/c/except.c: exception headers, the stack of in-flight  *)
(*             exceptions, throw / begin_catch / cleanup / terminate      *)
(*   SpecReg   src/runtime/src/throw.c: the registry of per-thread nodes, *)
(*             its mutex, and the catcher stack of every thread           *)
(*   SpecLsda  src/rt/except/personnality.c: the LSDA interpreter         *)
(***************************************************************************)
EXTENDS Integers, Sequences, FiniteSets, TLC

(***************************************************************************)
(* Bounds of the model                                                     *)
(***************************************************************************)
\* number of threads of the process
NThreads == 2
\* number of distinct non-null payload values
MaxPayload == 2
\* number of exception headers the raw allocator can hand out at once
MaxHeap == 2
\* number of threads that use the registry
NRegThreads == 2
\* number of try blocks a thread nests
MaxTry == 1
\* number of code ranges of the function whose LSDA is interpreted
NRanges == 3
\* address of the first instruction of that function
RegionStart == 64
\* highest bit set in the magnitudes given to the LEB128 readers
MaxLebBit == 31
\* the words of the memory the encoded-value decoder reads
DecWords == 7
\* number of throws of the thread that nests exceptions
MaxThrows == 3
NWaiters == 3
MaxResult == 2

NULL == 0

Threads == 1..NThreads
\* A payload is a reference to an exception object: the code uses a NULL
\* object to mean "no exception" (except.c:82, throw.c:112,136).
Payloads == 1..MaxPayload

VARIABLES
    \* ---- src/c/except.c ----
    stack,        \* the global head of the chain of in-flight headers
    hdr,          \* the fields of every header (EH is ehstorage)
    heap,         \* the heap headers currently allocated
    terminating,  \* the static flag of _yrt_exc_terminate
    aborted,      \* abort() was called: the process is gone
    err,          \* what was written on stderr
    raising,      \* per thread: it is inside _Unwind_RaiseException
    inflight,     \* per thread: the headers it threw and did not catch yet
    payloadOf,    \* per header in flight: the payload its throw was given
    last,         \* the call that made the last step, and what it returned
    nest,         \* nested exceptions: the next of every payload, and the unwinder
    \* ---- src/runtime/src/throw.c ----
    regHead,      \* _yrt_exc_global
    mutex,        \* _yrt_exc_mutex: the thread holding it, or NULL
    tnode,        \* the fields of every struct _yrt_thread_stack
    live,         \* the nodes malloc gave and free did not take back
    registered,   \* the nodes _yrt_insert_thread linked and _yrt_remove_thread did not unlink yet
    pc,           \* per thread: where it is in the call it makes
    op,           \* per thread: the call it makes
    arg,          \* per thread: the info and data of that call
    cur,          \* per thread: current of the scan it runs
    got,          \* per thread: the node its lookup returned (_list_)
    lastp,        \* per thread: last of _yrt_remove_thread_current
    newn,         \* per thread: head of _yrt_insert_thread
    pending,      \* per thread: it threw and no catch clause took the data yet
    tries,        \* per thread: the try blocks it is in
    \* ---- src/rt/except/personnality.c ----
    lsda,         \* the bytes of the LSDA of the frame being unwound
    ctx,          \* the _Unwind_Context of that frame, and the table lsda encodes
    frame,        \* the locals of the running call of _yrt_exc_personality
    saved,        \* what _yrt_exc_save left in the exception header
    uw,           \* the unwinder: its phase, and what the personality returned
    \* ---- the LEB128 readers of src/rt/except/personnality.c, on their own ----
    leb,          \* a value, the bytes of its encoding, and what a reader made of them
    \* ---- the encoded-value decoder of src/rt/except/personnality.c, on its own ----
    dec,          \* a call of the decoder: its arguments, the memory, and what it gave
    \* ---- src/rt/run.c, src/rt/except/panic.c ----
    started,      \* _yrt_run_main or _yrt_run_main_debug ran up to y_main
    YRT_DEBUG,    \* __YRT_DEBUG__
    rt_terminating, \* the static terminating of _yrt_exc_terminate (panic.c)
    first,        \* the static first of bt_sighandler
    at,           \* per thread: the statement it is at
    path,         \* per thread: the function whose stack trace it prints
    handling,     \* per thread: it runs bt_sighandler
    printed,      \* per thread: what it wrote on stderr
    ended,        \* how the process ended: "abort", "killed", or "no"
    resolutions,  \* how many resolutions of a stack trace were started
    sigs,         \* the SIGSEGV delivered to bt_sighandler, in order: the path each took
    tcalls,       \* per thread: its call of terminate, and whether one was in progress then
    \* ---- src/rt/concurrency/future.c ----
    fut           \* a future: its content, and where the spawner, the worker and the waiters are

excVars == <<stack, hdr, heap, terminating, aborted, err, raising, inflight,
             payloadOf, last>>

nestVars == <<nest>>

regVars == <<regHead, mutex, tnode, live, registered, pc, op, arg, cur, got,
             lastp, newn, pending, tries>>

lsdaVars == <<lsda, ctx, frame, saved, uw>>

lebVars == <<leb>>

decVars == <<dec>>

panicVars == <<started, YRT_DEBUG, rt_terminating, first, at, path, handling,
               printed, ended, resolutions, sigs, tcalls>>

futVars == <<fut>>

vars == <<excVars, nestVars, regVars, lsdaVars, lebVars, decVars, panicVars, futVars>>

\* what src/c/except.c alone works on
excOnly == <<stack, hdr, heap, terminating, raising, inflight, payloadOf, last>>

\* what the steps of each specification leave alone
offExc == <<nestVars, regVars, lsdaVars, lebVars, decVars, panicVars, futVars>>
offReg == <<excOnly, nestVars, lsdaVars, lebVars, decVars, panicVars, futVars>>
offLsda == <<excVars, nestVars, regVars, lebVars, decVars, panicVars, futVars>>
offLeb == <<excVars, nestVars, regVars, lsdaVars, decVars, panicVars, futVars>>
offDec == <<excVars, nestVars, regVars, lsdaVars, lebVars, panicVars, futVars>>
offPanic == <<excVars, nestVars, regVars, lsdaVars, lebVars, decVars, futVars>>
offFut == <<excVars, nestVars, regVars, lsdaVars, lebVars, decVars, panicVars>>
\* the nested throws are made by one thread: what they leave alone
offNest == <<raising, inflight, payloadOf, last, regVars, lsdaVars, lebVars,
             decVars, panicVars, futVars>>

(***************************************************************************)
(* src/c/except.c                                                          *)
(***************************************************************************)
\* &ehstorage, the preallocated header
EH == 1
HeapHeaders == 2..(MaxHeap + 1)
Headers == {EH} \cup HeapHeaders

\* _Unwind_Reason_Code (unwind.h)
URC_NO_REASON == 0
URC_FOREIGN_EXCEPTION_CAUGHT == 1
URC_FATAL_PHASE2_ERROR == 2
URC_FATAL_PHASE1_ERROR == 3
URC_END_OF_STACK == 5
\* the codes an unwind library can hand to an exception_cleanup
ReasonCodes == {URC_NO_REASON, URC_FOREIGN_EXCEPTION_CAUGHT, URC_FATAL_PHASE2_ERROR,
                URC_FATAL_PHASE1_ERROR, URC_END_OF_STACK}
\* what _Unwind_RaiseException can return to its caller
RaiseResults == {URC_FATAL_PHASE2_ERROR, URC_FATAL_PHASE1_ERROR, URC_END_OF_STACK}

\* a header after calloc or memset (.., 0, ..)
ZeroHeader == [object |-> NULL, next |-> NULL, cleanup |-> FALSE,
               handler |-> 0, languageSpecificData |-> NULL, landingPad |-> 0,
               canonicalFrameAddress |-> 0]

\* The C globals as one value, so that the C functions compose as they are called.
Machine == [stack |-> stack, hdr |-> hdr, heap |-> heap,
            terminating |-> terminating, aborted |-> aborted, err |-> err]

\* _yrt_exc_terminate (msg, line): nothing runs after abort ()
yrt_exc_terminate(m, msg) ==
    IF m.aborted THEN m
    ELSE IF m.terminating = 1
         THEN [m EXCEPT !.err = Append(@, "terminating called recursively"),
                        !.aborted = TRUE]
         ELSE [m EXCEPT !.terminating = 1,
                        !.err = Append(@, msg),
                        !.aborted = TRUE]

\* a read or write through a null or freed header: the build faults
Fault(m) == [m EXCEPT !.err = Append(@, "SIGSEGV"), !.aborted = TRUE]

\* _yrt_exc_create_header (object), with fresh the result of calloc
\* (NULL when the allocator has nothing left). Returns <<machine, eh>>.
yrt_exc_create_header(m, object, fresh) ==
    IF m.hdr[EH].object # NULL
    THEN IF fresh = NULL
         THEN <<yrt_exc_terminate(m, "out of memory\n"), NULL>>
         ELSE <<[m EXCEPT !.heap = @ \cup {fresh},
                          !.hdr[fresh] = [ZeroHeader EXCEPT !.object = object]],
                fresh>>
    ELSE <<[m EXCEPT !.hdr[EH].object = object], EH>>

\* _yrt_exc_free_header (head)
yrt_exc_free_header(m, head) ==
    IF head # EH
    THEN [m EXCEPT !.hdr[head] = ZeroHeader, !.heap = @ \ {head}]
    ELSE [m EXCEPT !.hdr[head] = ZeroHeader]

\* _yrt_exc_push (e)
yrt_exc_push(m, e) ==
    [m EXCEPT !.hdr[e].next = m.stack, !.stack = e]

\* _yrt_exc_pop (): <<machine, eh>>
yrt_exc_pop(m) ==
    IF m.stack = NULL
    THEN <<Fault(m), NULL>>
    ELSE <<[m EXCEPT !.stack = m.hdr[m.stack].next], m.stack>>

\* a test that lets only _URC_FOREIGN_EXCEPTION_CAUGHT through
CleanupFatalUnlessForeign(code) == code # URC_FOREIGN_EXCEPTION_CAUGHT

\* the test of _yrt_exc_exception_cleanup
CleanupFatal(code) == code # URC_FOREIGN_EXCEPTION_CAUGHT /\ code # URC_NO_REASON

\* _yrt_exc_exception_cleanup (code, exc)
yrt_exc_exception_cleanup(m, code, eh) ==
    LET m1 == IF CleanupFatal(code)
              THEN yrt_exc_terminate(m, "uncaught exception")
              ELSE m
    IN IF m1.aborted THEN m1 ELSE yrt_exc_free_header(m1, eh)

\* _Unwind_DeleteException (exc) of the unwind library: it calls the
\* exception_cleanup of the header, when one is set, with
\* _URC_FOREIGN_EXCEPTION_CAUGHT
Unwind_DeleteException(m, eh) ==
    IF m.hdr[eh].cleanup
    THEN yrt_exc_exception_cleanup(m, URC_FOREIGN_EXCEPTION_CAUGHT, eh)
    ELSE m

\* _yrt_exc_throw up to the call of _Unwind_RaiseException: <<machine, eh>>
yrt_exc_throw_raise(m, data, fresh) ==
    LET c == yrt_exc_create_header(m, data, fresh)
        m1 == c[1]
        eh == c[2]
    IN IF m1.aborted THEN <<m1, NULL>>
       ELSE <<[yrt_exc_push(m1, eh) EXCEPT !.hdr[eh].cleanup = TRUE], eh>>

\* a _yrt_exc_throw that ends after the test of _URC_END_OF_STACK
yrt_exc_throw_returned_no_final(m, r) ==
    IF r = URC_END_OF_STACK
    THEN yrt_exc_terminate(m, "uncaught exception")
    ELSE m

\* _yrt_exc_throw after _Unwind_RaiseException returned r
yrt_exc_throw_returned(m, r) ==
    LET m1 == IF r = URC_END_OF_STACK
              THEN yrt_exc_terminate(m, "uncaught exception")
              ELSE m
    IN yrt_exc_terminate(m1, "unwind error ")

\* a _yrt_exc_begin_catch that pops without comparing
yrt_exc_begin_catch_unchecked(m, header) ==
    LET object == m.hdr[header].object
        p == yrt_exc_pop(m)
    IN IF p[1].aborted THEN <<p[1], NULL>>
       ELSE <<Unwind_DeleteException(p[1], header), object>>

\* a _yrt_exc_begin_catch that reads the object once the header is deleted
yrt_exc_begin_catch_late_read(m, header) ==
    LET p == yrt_exc_pop(m)
        m1 == IF p[1].aborted THEN p[1]
              ELSE IF header # p[2]
                   THEN yrt_exc_terminate(p[1], "Catch error")
                   ELSE p[1]
        m2 == Unwind_DeleteException(m1, header)
    IN IF m1.aborted THEN <<m1, NULL>>
       ELSE <<m2, m2.hdr[header].object>>

\* _yrt_exc_begin_catch (unwindHeader): <<machine, returned object>>
yrt_exc_begin_catch(m, header) ==
    LET object == m.hdr[header].object
        p == yrt_exc_pop(m)
        m1 == IF p[1].aborted THEN p[1]
              ELSE IF header # p[2]
                   THEN yrt_exc_terminate(p[1], "Catch error")
                   ELSE p[1]
    IN IF m1.aborted THEN <<m1, NULL>>
       ELSE <<Unwind_DeleteException(m1, header), object>>

(***************************************************************************)
(* SpecExc: the threads of a process calling src/c/except.c.  Generated    *)
(* code and the unwind library are the environment: a thread throws, its   *)
(* _Unwind_RaiseException either returns a reason code or lands in a       *)
(* handler, which calls begin_catch with a header the thread threw.        *)
(***************************************************************************)
NoCall == [op |-> "none", t |-> 0, h |-> NULL, arg |-> NULL, res |-> "none",
           obj |-> NULL, popped |-> NULL]

\* the headers linked from e, in order (cut at n links)
RECURSIVE Chain(_, _, _)
Chain(h, e, n) ==
    IF e = NULL \/ n = 0 THEN <<>> ELSE <<e>> \o Chain(h, h[e].next, n - 1)

\* the stack of in-flight headers, topmost first
StackChain == Chain(hdr, stack, Cardinality(Headers) + 1)

SeqElems(s) == {s[i] : i \in 1..Len(s)}
RemoveElem(s, x) == SelectSeq(s, LAMBDA y : y # x)

\* what calloc returns: NULL only when nothing is left. The blocks are
\* interchangeable, the lowest free one stands for any of them.
Calloc ==
    IF HeapHeaders \ heap = {} THEN NULL
    ELSE CHOOSE h \in HeapHeaders \ heap : \A g \in HeapHeaders \ heap : h <= g

\* the headers some thread threw and did not catch yet
InFlight == UNION {SeqElems(inflight[t]) : t \in Threads}

SetMachine(m) ==
    /\ stack' = m.stack
    /\ hdr' = m.hdr
    /\ heap' = m.heap
    /\ terminating' = m.terminating
    /\ aborted' = m.aborted
    /\ err' = m.err

InitExc ==
    /\ stack = NULL
    /\ hdr = [h \in Headers |-> ZeroHeader]
    /\ heap = {}
    /\ terminating = 0
    /\ aborted = FALSE
    /\ err = <<>>
    /\ raising = [t \in Threads |-> FALSE]
    /\ inflight = [t \in Threads |-> <<>>]
    /\ payloadOf = [h \in Headers |-> NULL]
    /\ last = NoCall

\* thread t: _yrt_exc_throw (file, function, line, info, data), up to and
\* including the call of _Unwind_RaiseException
Throw(t, data) ==
    /\ ~aborted
    /\ LET r == yrt_exc_throw_raise(Machine, data, Calloc)
           m == r[1]
           eh == r[2]
       IN /\ SetMachine(m)
          /\ IF m.aborted
             THEN /\ UNCHANGED <<raising, inflight, payloadOf>>
                  /\ last' = [NoCall EXCEPT !.op = "throw", !.t = t,
                                            !.arg = data, !.res = "abort"]
             ELSE /\ raising' = [raising EXCEPT ![t] = TRUE]
                  /\ inflight' = [inflight EXCEPT ![t] = Append(@, eh)]
                  /\ payloadOf' = [h \in Headers |->
                                     IF h = eh THEN data
                                     ELSE IF h \in InFlight THEN payloadOf[h] ELSE NULL]
                  /\ last' = [NoCall EXCEPT !.op = "throw", !.t = t, !.h = eh,
                                            !.arg = data, !.res = "raise"]

\* thread t: _Unwind_RaiseException returns r to _yrt_exc_throw
RaiseReturns(t, r) ==
    /\ ~aborted
    /\ raising[t]
    /\ SetMachine(yrt_exc_throw_returned(Machine, r))
    /\ UNCHANGED <<raising, inflight, payloadOf>>
    /\ last' = [NoCall EXCEPT !.op = "throw_returned", !.t = t, !.arg = r,
                              !.h = inflight[t][Len(inflight[t])],
                              !.res = IF aborted' THEN "abort" ELSE "return"]

\* thread t, in a landing pad: _yrt_exc_begin_catch (header)
BeginCatch(t, header) ==
    /\ ~aborted
    /\ header \in SeqElems(inflight[t])
    /\ LET r == yrt_exc_begin_catch(Machine, header)
           m == r[1]
       IN /\ SetMachine(m)
          /\ raising' = [raising EXCEPT ![t] = FALSE]
          /\ inflight' = [inflight EXCEPT ![t] =
                            IF m.aborted THEN @ ELSE RemoveElem(@, header)]
          /\ UNCHANGED payloadOf
          /\ last' = [NoCall EXCEPT !.op = "begin_catch", !.t = t, !.h = header,
                                    !.res = IF m.aborted THEN "abort" ELSE "return",
                                    !.obj = r[2],
                                    !.popped = stack]

\* thread t is unwinding and the unwind library, or a foreign runtime that
\* caught the exception, destroys it: header->unwindHeader.exception_cleanup
\* (code, header). When the callback returns, the frame that destroyed the
\* exception goes on.
ExceptionCleanup(t, code, header) ==
    /\ ~aborted
    /\ raising[t]
    /\ header \in SeqElems(inflight[t])
    /\ hdr[header].cleanup
    /\ LET m == yrt_exc_exception_cleanup(Machine, code, header)
       IN /\ SetMachine(m)
          /\ raising' = [raising EXCEPT ![t] = m.aborted]
          /\ inflight' = [inflight EXCEPT ![t] =
                            IF m.aborted THEN @ ELSE RemoveElem(@, header)]
          /\ UNCHANGED payloadOf
          /\ last' = [NoCall EXCEPT !.op = "cleanup", !.t = t, !.h = header,
                                    !.arg = code,
                                    !.res = IF m.aborted THEN "abort" ELSE "return"]

NextExc ==
    \/ \E t \in Threads, data \in Payloads : Throw(t, data) /\ UNCHANGED offExc
    \/ \E t \in Threads, r \in RaiseResults : RaiseReturns(t, r) /\ UNCHANGED offExc
    \/ \E t \in Threads, header \in Headers : BeginCatch(t, header) /\ UNCHANGED offExc

\* SpecCleanup: the threads of SpecExc, and the destruction of an exception
\* that is being unwound by the unwind library or by a foreign runtime. The
\* stack still links the destroyed header: the process is followed up to the
\* return of the callback, and not into what is done with that stack later.
CleanupDone == last.op = "cleanup"

NextCleanup ==
    \/ ~CleanupDone /\ NextExc
    \/ \E t \in Threads, code \in ReasonCodes, header \in Headers :
         ~CleanupDone /\ ExceptionCleanup(t, code, header) /\ UNCHANGED offExc


\* the exception stack and the embedded slot that the calls of thread u work
\* on: except.c declares one of each for the whole process (except.c:53,57)
ThreadStack(u) == [stack |-> StackChain, ehstorage |-> hdr[EH]]

LastOf(s) == s[Len(s)]

(***************************************************************************)
(* Claims on SpecExc                                                       *)
(***************************************************************************)
\* C1: begin_catch returns only for the header its thread threw last and did
\* not catch yet, so a thread's headers are retired in reverse throw order;
\* begin_catch on a header that is not the top of the stack ends in the
\* "Catch error" termination and returns no payload.
C1_LifoCatch ==
    [][last'.op = "begin_catch" =>
         /\ last'.res = "return" => last'.h = LastOf(inflight[last'.t])
         /\ last'.h # stack =>
              /\ last'.res = "abort"
              /\ aborted'
              /\ LastOf(err') = "Catch error"
              /\ last'.obj = NULL
              /\ inflight' = inflight]_vars

\* a thread with two exceptions in flight has caught the one it threw last,
\* the other one is still to be caught
C1_Witness ==
    /\ last.op = "begin_catch"
    /\ last.res = "return"
    /\ Len(inflight[last.t]) = 1

\* C2: _yrt_exc_throw never returns: when _Unwind_RaiseException returns
\* end-of-stack the process is aborted with "uncaught exception", for every
\* other code it is aborted too ("unwind error ").
C2_ThrowNeverReturns ==
    /\ last.op \in {"throw", "throw_returned"} => last.res # "return"
    /\ last.op = "throw_returned" =>
         /\ aborted
         /\ last.arg = URC_END_OF_STACK => LastOf(err) = "uncaught exception"
         /\ last.arg # URC_END_OF_STACK => LastOf(err) = "unwind error "

\* the unwinder found no frame for an exception
C2_Witness ==
    /\ last.op = "throw_returned"
    /\ last.arg = URC_END_OF_STACK
    /\ aborted

\* C3: a begin_catch that returns gives the payload that the throw of its
\* header was given, and leaves the header zeroed and, when it came from
\* the heap, released.
C3_PayloadRoundTrip ==
    (last.op = "begin_catch" /\ last.res = "return") =>
        /\ last.obj = payloadOf[last.h]
        /\ last.obj \in Payloads
        /\ hdr[last.h] = ZeroHeader
        /\ last.h \notin heap

\* a heap header is caught while another exception is in flight
C3_Witness ==
    /\ last.op = "begin_catch"
    /\ last.res = "return"
    /\ last.h # EH
    /\ stack # NULL
    /\ last.obj = payloadOf[last.h]
    /\ payloadOf[stack] # last.obj

\* C5: a call of one thread changes the exception stack and the embedded
\* slot of no other thread, and begin_catch pops only a header that its own
\* thread threw.
C5_PerThreadOwnership ==
    [][/\ \A u \in Threads : u # last'.t => ThreadStack(u)' = ThreadStack(u)
       /\ last'.op = "begin_catch" =>
            last'.popped \in SeqElems(inflight[last'.t])]_vars

\* C8: slot reuse. A throw of a thread that has no exception in flight (it
\* caught every exception before it threw the next) is given the embedded
\* slot, never a heap header.
C8_SlotReuse ==
    [][(last'.op = "throw" /\ last'.res = "raise" /\ inflight[last'.t] = <<>>) =>
          last'.h = EH]_vars

(***************************************************************************)
(* src/runtime/src/throw.c: the registry of per-thread nodes               *)
(***************************************************************************)
RegThreads == 1..NRegThreads
\* the blocks malloc can hand out: one per thread, and a spare one
Nodes == 1..(NRegThreads + 1)
\* the exception types: a catch clause names the type thrown, or another one
Types == {1, 2}
\* the data of a throw is a reference to an exception object, never NULL:
\* NULL is what _yrt_exc_check_type returns for "not this type" (throw.c:136).
\* The code only ever compares data with NULL, one value stands for all.
RegPayloads == {1}

\* a struct _yrt_thread_stack as _yrt_insert_thread leaves it
NewNode(id) == [id |-> id, next |-> NULL, stack |-> <<>>, data |-> NULL, info |-> NULL]

\* the nodes linked from n, in order (cut at k links)
RECURSIVE NodeChain(_, _, _)
NodeChain(nd, n, k) ==
    IF n = NULL \/ k = 0 THEN <<>> ELSE <<n>> \o NodeChain(nd, nd[n].next, k - 1)

\* the registry as a scan from _yrt_exc_global sees it
RegChain == NodeChain(tnode, regHead, NRegThreads + 2)

\* the nodes of thread id in the registry
NodesOf(id) == {n \in SeqElems(RegChain) : tnode[n].id = id}

\* malloc (sizeof (struct _yrt_thread_stack)) called by thread t: a block that
\* is not in use. The blocks are interchangeable: the model hands thread t the
\* block of its own number when that one is free, the lowest free one if not
Malloc(t) ==
    IF t \in Nodes \ live THEN t
    ELSE CHOOSE n \in Nodes \ live : \A m \in Nodes \ live : n <= m

\* a mutex that lets everyone through
MutexNeverHeld(mx) == TRUE

\* pthread_mutex_lock returns once no thread holds the mutex
MutexAvailable(mx) == mx = NULL

\* a _yrt_get_thread_stack that inserts whatever the scan found
AlwaysInsert(g) == TRUE

\* _yrt_get_thread_stack: if (got == NULL) return _yrt_insert_thread (id)
NeedInsert(g) == g = NULL

\* a _yrt_exc_pop_list that forgets the data in flight
PopListRemovesOnEmptyStack(n) == n.stack = <<>>

\* _yrt_exc_pop_list: if (_list_-> stack == NULL && _list_-> data == NULL)
PopListRemoves(n) == n.stack = <<>> /\ n.data = NULL

\* _yrt_type_equals, on the type identities of the model
yrt_type_equals(a, b) == a = b

\* *last in _yrt_remove_thread_current: last is &_yrt_exc_global (NULL here)
\* or &node-> next
DerefLast(l) == IF l = NULL THEN regHead ELSE tnode[l].next

\* the program counters at which a thread is between the lock and the unlock
\* of _yrt_exc_mutex
RegCritical == {"gs_scan", "ins_link1", "ins_link2", "rm_scan", "rm_splice", "rm_free"}

Idle(t) == ~aborted /\ pc[t] = "idle"

\* thread t enters call o: every call starts with a lookup, which locks
\* _yrt_exc_mutex and scans from _yrt_exc_global
Call(t, o, d, i) ==
    /\ Idle(t)
    /\ MutexAvailable(mutex)
    /\ mutex' = t
    /\ op' = [op EXCEPT ![t] = o]
    /\ arg' = [arg EXCEPT ![t] = [data |-> d, info |-> i]]
    /\ cur' = [cur EXCEPT ![t] = regHead]
    /\ pc' = [pc EXCEPT ![t] = "gs_scan"]
    /\ UNCHANGED <<regHead, tnode, live, registered, got, lastp, newn,
                   pending, tries, aborted, err>>

regShared == <<regHead, mutex, tnode, live, registered>>

InitReg ==
    /\ regHead = NULL
    /\ mutex = NULL
    /\ tnode = [n \in Nodes |-> NewNode(NULL)]
    /\ live = {}
    /\ registered = {}
    /\ pc = [t \in RegThreads |-> "idle"]
    /\ op = [t \in RegThreads |-> "none"]
    /\ arg = [t \in RegThreads |-> [data |-> NULL, info |-> NULL]]
    /\ cur = [t \in RegThreads |-> NULL]
    /\ got = [t \in RegThreads |-> NULL]
    /\ lastp = [t \in RegThreads |-> NULL]
    /\ newn = [t \in RegThreads |-> NULL]
    /\ pending = [t \in RegThreads |-> FALSE]
    /\ tries = [t \in RegThreads |-> 0]

\* ---- the calls of generated code ----
\* entry of a try block: _yrt_exc_push (j, 0)
TryEnter(t) ==
    /\ tries[t] < MaxTry
    /\ Call(t, "push", NULL, NULL)

\* normal exit of a try block: _yrt_exc_pop (j)
TryExit(t) ==
    /\ ~pending[t]
    /\ tries[t] > 0
    /\ Call(t, "pop", NULL, NULL)

\* _yrt_exc_throw (file, function, line, info, data)
ThrowReg(t, info, data) ==
    /\ ~pending[t]
    /\ Call(t, "throw", data, info)

\* a catch clause: _yrt_exc_check_type (info)
CheckType(t, info) ==
    /\ pending[t]
    /\ Call(t, "check", NULL, info)

\* no catch clause took the exception: _yrt_exc_rethrow ()
Rethrow(t) ==
    /\ pending[t]
    /\ Call(t, "rethrow", NULL, NULL)

\* the call of thread t returns (or longjmps, after a throw): its locals are gone
Return(t) ==
    /\ pc' = [pc EXCEPT ![t] = "idle"]
    /\ op' = [op EXCEPT ![t] = "none"]
    /\ arg' = [arg EXCEPT ![t] = [data |-> NULL, info |-> NULL]]
    /\ cur' = [cur EXCEPT ![t] = NULL]
    /\ got' = [got EXCEPT ![t] = NULL]
    /\ lastp' = [lastp EXCEPT ![t] = NULL]
    /\ newn' = [newn EXCEPT ![t] = NULL]

\* longjmp (j, 1) at the end of _yrt_exc_throw and _yrt_exc_rethrow
AfterPopList(t) ==
    /\ Return(t)
    /\ pending' = [pending EXCEPT ![t] = op[t] \in {"throw", "rethrow"}]

\* _yrt_exc_pop_list (j, _list_) on the nodes nd, up to the call of
\* _yrt_remove_thread
PopList(t, g, nd) ==
    IF g = NULL \/ nd[g].stack = <<>>
    THEN /\ aborted' = TRUE
         /\ err' = Append(err, "Unhandled exception")
         /\ pc' = [pc EXCEPT ![t] = "dead"]
         /\ tnode' = nd
         /\ UNCHANGED <<tries, pending, op, arg, cur, got, lastp, newn>>
    ELSE LET popped == [nd[g] EXCEPT !.stack = Tail(@)]
         IN /\ tnode' = [nd EXCEPT ![g] = popped]
            /\ tries' = [tries EXCEPT ![t] = @ - 1]
            /\ UNCHANGED <<aborted, err>>
            /\ IF PopListRemoves(popped)
               THEN /\ pc' = [pc EXCEPT ![t] = "rm_lock"]
                    /\ got' = [got EXCEPT ![t] = g]
                    /\ UNCHANGED <<pending, op, arg, cur, lastp, newn>>
               ELSE AfterPopList(t)

\* _yrt_exc_push after the lookup: a new catcher cell on _list_-> stack
BodyPush(t, g) ==
    /\ tnode' = [tnode EXCEPT ![g].stack = <<tries[t] + 1>> \o @]
    /\ tries' = [tries EXCEPT ![t] = @ + 1]
    /\ Return(t)
    /\ UNCHANGED <<pending, aborted, err>>

\* _yrt_exc_throw after the lookup: the exception is stored in the node, then
\* _yrt_exc_pop_list and the longjmp
BodyThrow(t, g) ==
    PopList(t, g, [tnode EXCEPT ![g].info = arg[t].info, ![g].data = arg[t].data])

\* _yrt_exc_check_type after the lookup
BodyCheck(t, g) ==
    /\ IF g # NULL /\ yrt_type_equals(tnode[g].info, arg[t].info)
       THEN /\ tnode' = [tnode EXCEPT ![g].data = NULL]
            /\ pending' = [pending EXCEPT ![t] = FALSE]
       ELSE UNCHANGED <<tnode, pending>>
    /\ Return(t)
    /\ UNCHANGED <<tries, aborted, err>>

\* what the call of thread t does on its node g once the lookup has returned
\* it, up to its return or to its call of _yrt_remove_thread: these statements
\* touch the fields stack, data and info of the thread's own node only
Body(t, g) ==
    CASE op[t] = "push" -> BodyPush(t, g)
      [] op[t] = "throw" -> BodyThrow(t, g)
      [] op[t] = "check" -> BodyCheck(t, g)
      [] OTHER -> PopList(t, g, tnode)

\* ---- _yrt_get_thread_stack / _yrt_get_thread_stack_no_add ----
\* one call of _yrt_get_thread_stack_current (id, current): a step to the next
\* node
GsScan(t) ==
    /\ ~aborted
    /\ pc[t] = "gs_scan"
    /\ cur[t] # NULL /\ tnode[cur[t]].id # t
    /\ cur' = [cur EXCEPT ![t] = tnode[cur[t]].next]
    /\ UNCHANGED <<regHead, mutex, tnode, live, registered, pc, op, arg, got,
                   lastp, newn, pending, tries, aborted, err>>

\* the scan is over (the node of id, or NULL): the unlock; _yrt_exc_push and
\* _yrt_exc_throw go on to _yrt_insert_thread when they got NULL
GsFound(t) ==
    /\ ~aborted
    /\ pc[t] = "gs_scan"
    /\ (IF cur[t] = NULL THEN TRUE ELSE tnode[cur[t]].id = t)
    /\ mutex' = NULL
    /\ IF op[t] \in {"push", "throw"} /\ NeedInsert(cur[t])
       THEN /\ pc' = [pc EXCEPT ![t] = "ins_lock"]
            /\ cur' = [cur EXCEPT ![t] = NULL]
            /\ UNCHANGED <<tnode, op, arg, got, lastp, newn, pending, tries,
                           aborted, err>>
       ELSE Body(t, cur[t])
    /\ UNCHANGED <<regHead, live, registered>>

\* ---- _yrt_insert_thread ----
\* the malloc and the stores in the new node, then the lock
InsLock(t) ==
    /\ ~aborted
    /\ pc[t] = "ins_lock"
    /\ MutexAvailable(mutex)
    /\ mutex' = t
    /\ LET n == Malloc(t)
       IN /\ live' = live \cup {n}
          /\ tnode' = [tnode EXCEPT ![n] = NewNode(t)]
          /\ newn' = [newn EXCEPT ![t] = n]
    /\ pc' = [pc EXCEPT ![t] = "ins_link1"]
    /\ UNCHANGED <<regHead, registered, op, arg, cur, got, lastp,
                   pending, tries, aborted, err>>

\* head-> next = _yrt_exc_global
InsLink1(t) ==
    /\ ~aborted
    /\ pc[t] = "ins_link1"
    /\ tnode' = [tnode EXCEPT ![newn[t]].next = regHead]
    /\ pc' = [pc EXCEPT ![t] = "ins_link2"]
    /\ UNCHANGED <<regHead, mutex, live, registered, op, arg, cur, got, lastp, newn,
                   pending, tries, aborted, err>>

\* _yrt_exc_global = head, the unlock, and the caller goes on with head
InsLink2(t) ==
    /\ ~aborted
    /\ pc[t] = "ins_link2"
    /\ regHead' = newn[t]
    /\ registered' = registered \cup {newn[t]}
    /\ mutex' = NULL
    /\ Body(t, newn[t])
    /\ UNCHANGED live

\* ---- _yrt_remove_thread (_list_-> id) ----
RmLock(t) ==
    /\ ~aborted
    /\ pc[t] = "rm_lock"
    /\ MutexAvailable(mutex)
    /\ mutex' = t
    /\ cur' = [cur EXCEPT ![t] = regHead]
    /\ lastp' = [lastp EXCEPT ![t] = NULL]
    /\ pc' = [pc EXCEPT ![t] = "rm_scan"]
    /\ UNCHANGED <<regHead, tnode, live, registered, op, arg, got, newn,
                   pending, tries, aborted, err>>

\* one call of _yrt_remove_thread_current (id, current, last); when no node
\* has the id, the unlock and the return follow
RmScan(t) ==
    /\ ~aborted
    /\ pc[t] = "rm_scan"
    /\ IF cur[t] = NULL
       THEN /\ mutex' = NULL
            /\ AfterPopList(t)
       ELSE IF tnode[cur[t]].id = t
            THEN /\ pc' = [pc EXCEPT ![t] = "rm_splice"]
                 /\ UNCHANGED <<cur, lastp, mutex, op, arg, got, newn, pending>>
            ELSE /\ lastp' = [lastp EXCEPT ![t] = DerefLast(lastp[t])]
                 /\ cur' = [cur EXCEPT ![t] = tnode[cur[t]].next]
                 /\ UNCHANGED <<pc, mutex, op, arg, got, newn, pending>>
    /\ UNCHANGED <<regHead, tnode, live, registered, tries, aborted, err>>

\* *last = current-> next
RmSplice(t) ==
    /\ ~aborted
    /\ pc[t] = "rm_splice"
    /\ IF lastp[t] = NULL
       THEN /\ regHead' = tnode[cur[t]].next
            /\ tnode' = tnode
       ELSE /\ tnode' = [tnode EXCEPT ![lastp[t]].next = tnode[cur[t]].next]
            /\ regHead' = regHead
    /\ registered' = registered \ {cur[t]}
    /\ pc' = [pc EXCEPT ![t] = "rm_free"]
    /\ UNCHANGED <<mutex, live, op, arg, cur, got, lastp, newn,
                   pending, tries, aborted, err>>

\* free (current), the unlock, and the return (or the longjmp)
RmFree(t) ==
    /\ ~aborted
    /\ pc[t] = "rm_free"
    /\ live' = live \ {cur[t]}
    /\ tnode' = [tnode EXCEPT ![cur[t]] = NewNode(NULL)]
    /\ mutex' = NULL
    /\ AfterPopList(t)
    /\ UNCHANGED <<regHead, registered, tries, aborted, err>>

NextReg ==
    \/ \E t \in RegThreads : TryEnter(t) /\ UNCHANGED offReg
    \/ \E t \in RegThreads : TryExit(t) /\ UNCHANGED offReg
    \/ \E t \in RegThreads, info \in Types, data \in RegPayloads :
         ThrowReg(t, info, data) /\ UNCHANGED offReg
    \/ \E t \in RegThreads, info \in Types : CheckType(t, info) /\ UNCHANGED offReg
    \/ \E t \in RegThreads : Rethrow(t) /\ UNCHANGED offReg
    \/ \E t \in RegThreads : GsScan(t) /\ UNCHANGED offReg
    \/ \E t \in RegThreads : GsFound(t) /\ UNCHANGED offReg
    \/ \E t \in RegThreads : InsLock(t) /\ UNCHANGED offReg
    \/ \E t \in RegThreads : InsLink1(t) /\ UNCHANGED offReg
    \/ \E t \in RegThreads : InsLink2(t) /\ UNCHANGED offReg
    \/ \E t \in RegThreads : RmLock(t) /\ UNCHANGED offReg
    \/ \E t \in RegThreads : RmScan(t) /\ UNCHANGED offReg
    \/ \E t \in RegThreads : RmSplice(t) /\ UNCHANGED offReg
    \/ \E t \in RegThreads : RmFree(t) /\ UNCHANGED offReg

(***************************************************************************)
(* src/rt/except/personnality.c: the LSDA interpreter                      *)
(***************************************************************************)
DW_EH_PE_absptr == 0
DW_EH_PE_omit == 255
DW_EH_PE_uleb128 == 1
DW_EH_PE_udata2 == 2
DW_EH_PE_udata4 == 3
DW_EH_PE_udata8 == 4
DW_EH_PE_sleb128 == 9
DW_EH_PE_sdata2 == 10
DW_EH_PE_sdata4 == 11
DW_EH_PE_sdata8 == 12
DW_EH_PE_pcrel == 16
DW_EH_PE_textrel == 32
DW_EH_PE_datarel == 48
DW_EH_PE_funcrel == 64
DW_EH_PE_aligned == 80
DW_EH_PE_indirect == 128

UA_SEARCH_PHASE == 1
UA_CLEANUP_PHASE == 2
UA_HANDLER_FRAME == 4
UA_FORCE_UNWIND == 8

URC_HANDLER_FOUND == 6
URC_INSTALL_CONTEXT == 7
URC_CONTINUE_UNWIND == 8

\* x & mask for a mask of one bit, given as that bit's value
BitSet(x, bit) == (x \div bit) % 2 = 1

\* A pointer into the LSDA is the index of a byte of lsda (the first byte has
\* index 1); NULL is 0. A machine word (_Unwind_Internal_Ptr, unsigned, as
\* wide as a pointer) is an integer: a word with its top bit set is held as
\* the negative number it is in two's complement.
\* unsigned a < b on words
ULess(a, b) == IF (a < 0) = (b < 0) THEN a < b ELSE b < 0

\* what a read gives: the value, the cursor after it, and the message of
\* _yrt_exc_terminate when the read ended there ("" when it did not)
Read(v, q, t) == [val |-> v, p |-> q, term |-> t]

\* sizeof (void*), sizeof (size_t)
PtrSize == 8

\* _yrt_exc_size_of_encoded_value
yrt_exc_size_of_encoded_value(encoding) ==
    IF encoding = DW_EH_PE_omit THEN Read(0, NULL, "")
    ELSE CASE encoding % 8 = DW_EH_PE_absptr -> Read(PtrSize, NULL, "")
           [] encoding % 8 = DW_EH_PE_udata2 -> Read(2, NULL, "")
           [] encoding % 8 = DW_EH_PE_udata4 -> Read(4, NULL, "")
           [] encoding % 8 = DW_EH_PE_udata8 -> Read(8, NULL, "")
           [] OTHER -> Read(0, NULL, "reading encoded")

\* the context NULL that the call-site loop passes (l. 278-280)
NullContext == [null |-> TRUE]

\* _yrt_exc_base_of_encoded_value; c is the context (NullContext: the
\* unwinder reads no base out of a null context, the three getters fault)
yrt_exc_base_of_encoded_value(encoding, c) ==
    IF encoding = DW_EH_PE_omit THEN Read(0, NULL, "")
    ELSE LET app == ((encoding \div 16) % 8) * 16
         IN CASE app \in {DW_EH_PE_absptr, DW_EH_PE_pcrel, DW_EH_PE_aligned} ->
                   Read(0, NULL, "")
              [] app = DW_EH_PE_textrel ->
                   IF c = NullContext THEN Read(0, NULL, "fault") ELSE Read(c.textBase, NULL, "")
              [] app = DW_EH_PE_datarel ->
                   IF c = NullContext THEN Read(0, NULL, "fault") ELSE Read(c.dataBase, NULL, "")
              [] app = DW_EH_PE_funcrel ->
                   IF c = NullContext THEN Read(0, NULL, "fault") ELSE Read(c.start, NULL, "")
              [] OTHER -> Read(0, NULL, "reading encoded")

\* ---- machine words bit by bit ----
\* The LEB128 readers build a _Unwind_Internal_Ptr with | and <<. They are
\* modelled on the word as the set of the positions of its bits that are 1
\* (bit 0 is the lowest), so that the whole width of the word is there.
WordBits == PtrSize * 8

\* the positions of the bits of the byte n that are 1
BitsOf(n) == {i \in 0..7 : BitSet(n, 2 ^ i)}

\* the sum of 2^i for i in S
RECURSIVE BitSum(_)
BitSum(S) ==
    IF S = {} THEN 0
    ELSE LET i == CHOOSE j \in S : TRUE IN (2 ^ i) + BitSum(S \ {i})

\* (_Unwind_Internal_Ptr) x << shift, for x the bits of a byte: the bits
\* shifted past the top of the word are lost
ShiftLeft(bits, shift) == {i + shift : i \in bits} \cap (0..(WordBits - 1))

\* the integer a word stands for (two's complement when its top bit is set)
WordValue(w) ==
    IF (WordBits - 1) \in w
    THEN (0 - 1) - BitSum((0..(WordBits - 2)) \ w)
    ELSE BitSum(w)

\* a reader that takes the continuation bit as part of the value
LebPayloadWhole(b) == b

\* b & 0x7F
LebPayload(b) == b % 128

\* a reader that never extends the sign
SignExtendsNever(shift, b) == FALSE

\* shift < sizeof (_Unwind_Internal_Ptr) * 8 && (b & 0x40)
SignExtends(shift, b) == shift < WordBits /\ BitSet(b, 64)

\* the loop of _yrt_exc_read_uleb128, from cursor q with result and shift.
\* A shift by the width of the word or more is undefined in C: the read ends
\* there with the outcome "undefined".
RECURSIVE uleb128_loop(_, _, _, _)
uleb128_loop(m, q, result, shift) ==
    LET b == m[q]
        r == result \cup ShiftLeft(BitsOf(LebPayload(b)), shift)
    IN IF shift >= WordBits THEN Read(result, q, "undefined")
       ELSE IF ~BitSet(b, 128) THEN Read(r, q + 1, "")
            ELSE uleb128_loop(m, q + 1, r, shift + 7)

\* _yrt_exc_read_uleb128 (&p) on the bytes m: the word read, bit by bit
read_uleb128_bits(m, q) == uleb128_loop(m, q, {}, 0)

\* the value of a read as an integer
AsInt(r) == Read(WordValue(r.val), r.p, r.term)

\* _yrt_exc_read_uleb128 (&p) on the bytes m, the result as an integer
yrt_exc_read_uleb128(m, q) == AsInt(read_uleb128_bits(m, q))

\* the loop of _yrt_exc_read_sleb128 and the sign extension after it
RECURSIVE sleb128_loop(_, _, _, _)
sleb128_loop(m, q, result, shift) ==
    LET b == m[q]
        r == result \cup ShiftLeft(BitsOf(LebPayload(b)), shift)
        sh == shift + 7
    IN IF shift >= WordBits THEN Read(result, q, "undefined")
       ELSE IF ~BitSet(b, 128)
            THEN IF SignExtends(sh, b)
                 THEN Read(r \cup (sh..(WordBits - 1)), q + 1, "")
                 ELSE Read(r, q + 1, "")
            ELSE sleb128_loop(m, q + 1, r, sh)

\* _yrt_exc_read_sleb128 (&p) on the bytes m: the word read, bit by bit
read_sleb128_bits(m, q) == sleb128_loop(m, q, {}, 0)

\* _yrt_exc_read_sleb128 (&p) on the bytes m, the result as an integer
yrt_exc_read_sleb128(m, q) == AsInt(read_sleb128_bits(m, q))

\* _yrt_exc_read_unaligned into an unsigned integer of size bytes; the
\* targets of the runtime are little-endian
RECURSIVE yrt_exc_read_unaligned(_, _, _)
yrt_exc_read_unaligned(m, q, size) ==
    IF size = 0 THEN 0 ELSE m[q] + 256 * yrt_exc_read_unaligned(m, q + 1, size - 1)

\* the switch of _yrt_exc_read_encoded_value_with_base on the value format
ReadFormat(m, encoding, q) ==
    LET fmt == encoding % 16
    IN CASE fmt = DW_EH_PE_uleb128 -> yrt_exc_read_uleb128(m, q)
         [] fmt = DW_EH_PE_sleb128 -> yrt_exc_read_sleb128(m, q)
         [] fmt \in {DW_EH_PE_udata2, DW_EH_PE_sdata2} ->
              Read(yrt_exc_read_unaligned(m, q, 2), q + 2, "")
         [] fmt \in {DW_EH_PE_udata4, DW_EH_PE_sdata4} ->
              Read(yrt_exc_read_unaligned(m, q, 4), q + 4, "")
         [] fmt \in {DW_EH_PE_udata8, DW_EH_PE_sdata8} ->
              Read(yrt_exc_read_unaligned(m, q, 8), q + 8, "")
         [] fmt = DW_EH_PE_absptr ->
              Read(yrt_exc_read_unaligned(m, q, PtrSize), q + PtrSize, "")
         [] OTHER -> Read(0, q, "reading encoded")

\* _yrt_exc_read_encoded_value_with_base. psave is the value of the parameter
\* p, the address of the caller's cursor: that is what a pc-relative value is
\* added to. The aligned format reads the word at address
\* (p + 7) & 8, which is 0 or 8: no memory is mapped there.
yrt_exc_read_encoded_value_with_base(m, encoding, base, q, psave) ==
    IF encoding = DW_EH_PE_aligned THEN Read(0, q, "fault")
    ELSE LET r == ReadFormat(m, encoding, q)
             rel == IF ((encoding \div 16) % 8) * 16 = DW_EH_PE_pcrel
                    THEN r.val + psave ELSE r.val + base
         IN IF r.term # "" \/ r.val = 0 THEN r
            ELSE IF BitSet(encoding, DW_EH_PE_indirect)
                 THEN IF rel \in 1..(Len(m) - PtrSize + 1)
                      THEN Read(yrt_exc_read_unaligned(m, rel, PtrSize), r.p, "")
                      ELSE Read(0, r.p, "fault")
                 ELSE Read(rel, r.p, "")

\* _yrt_exc_read_encoded_value
yrt_exc_read_encoded_value(m, c, encoding, q, psave) ==
    LET base == yrt_exc_base_of_encoded_value(encoding, c)
    IN IF base.term # "" THEN Read(0, q, base.term)
       ELSE yrt_exc_read_encoded_value_with_base(m, encoding, base.val, q, psave)

\* the comparison of the call-site loop that ends the search: ip is before
\* the range of the entry
CSBefore(ip, start, CSStart) == ULess(ip, start + CSStart)

\* a call-site loop that takes the byte after the range as part of it
CSInsideInclusive(ip, start, CSStart, CSLen) == ~ULess(start + CSStart + CSLen, ip)

\* the comparison of the call-site loop that takes the entry: ip is not before
\* the range (tested first) and before its end
CSInside(ip, start, CSStart, CSLen) == ULess(ip, start + CSStart + CSLen)

\* what _yrt_exc_action_table_lookup gives: its return value, the two flags
\* it sets, and the message of _yrt_exc_terminate if it ended there
Lookup(h, sh, sc, t) == [handler |-> h, saw_handler |-> sh, saw_cleanup |-> sc, term |-> t]

\* a test that takes no record for a cleanup
ARIsCleanupNever(ARFilter) == FALSE

\* if (ARFilter == 0) *saw_cleanup = 1
ARIsCleanup(ARFilter) == ARFilter = 0

\* _yrt_exc_action_table_lookup; k bounds the records followed. The entry of
\* the type table is read and not used: when it lies outside the LSDA the
\* result carries "outside", and what the lookup returns if the read does
\* not fault
RECURSIVE yrt_exc_action_table_lookup(_, _, _, _, _, _, _, _, _)
yrt_exc_action_table_lookup(m, actions, actionRecord, TTypeBase, TType, TTypeEncoding, saw_handler, saw_cleanup, k) ==
    LET filter == yrt_exc_read_sleb128(m, actionRecord)
        ARFilter == filter.val
        apn == filter.p
        ARDisp == yrt_exc_read_sleb128(m, apn).val
        encodedSize == yrt_exc_size_of_encoded_value(TTypeEncoding)
        tp == TType - ARFilter * encodedSize.val
        entry == yrt_exc_read_encoded_value_with_base(m, TTypeEncoding, TTypeBase, tp, NULL)
        sc == IF ARIsCleanup(ARFilter) THEN TRUE ELSE saw_cleanup
    IN IF ARFilter # 0 /\ ~BitSet(actions, UA_FORCE_UNWIND) /\ ULess(0, ARFilter)
       THEN IF encodedSize.term # ""
            THEN Lookup(0, saw_handler, saw_cleanup, encodedSize.term)
            ELSE IF tp < 1 \/ tp + encodedSize.val - 1 > Len(m)
                 THEN Lookup(ARFilter, TRUE, saw_cleanup, "outside")
                 ELSE IF entry.term # ""
                      THEN Lookup(0, saw_handler, saw_cleanup, entry.term)
                      ELSE Lookup(ARFilter, TRUE, saw_cleanup, "")
       ELSE IF ARFilter # 0 /\ ~BitSet(actions, UA_FORCE_UNWIND)
            THEN Lookup(0, saw_handler, sc, "")
            ELSE IF ARDisp = 0 \/ k = 0
                 THEN Lookup(0, saw_handler, sc, "")
                 ELSE yrt_exc_action_table_lookup(m, actions, apn + ARDisp, TTypeBase,
                          TType, TTypeEncoding, saw_handler, sc, k - 1)

\* ---- the LSDAs the interpreter is run on ----
\* the function is cut in NRanges consecutive code ranges; lengths and landing
\* pads repeat with period 3
CSLens == <<10, 5, 8>>
CSPads == <<40, 72, 200>>
RangeLen(i) == CSLens[((i - 1) % 3) + 1]
RangePad(i) == CSPads[((i - 1) % 3) + 1] + 256 * ((i - 1) \div 3)

RECURSIVE RangeStart(_)
RangeStart(i) == IF i = 1 THEN 0 ELSE RangeStart(i - 1) + RangeLen(i - 1)

CodeLen == RangeStart(NRanges + 1)

\* where the frame's ip is taken, as an offset from the region start: the
\* first two bytes and the last byte of every range, and the two bytes that
\* follow the last range
Ips ==
    UNION {{RangeStart(i), RangeStart(i) + 1, RangeStart(i) + RangeLen(i) - 1} :
              i \in 1..NRanges}
    \cup {CodeLen, CodeLen + 1}

\* the records of the action table, next being the record that follows in
\* the chain (0 at the end of a chain): a catch of type 1; a cleanup chained
\* to a catch of type 2; a record with the filter -1 (an exception
\* specification) chained to a catch of type 1
ActionRecords ==
    <<[filter |-> 1, next |-> 0],
      [filter |-> 0, next |-> 3],
      [filter |-> 2, next |-> 0],
      [filter |-> 0 - 1, next |-> 5],
      [filter |-> 1, next |-> 0]>>

\* the SLEB128 byte of a number of -64..63
Sleb7(v) == IF v < 0 THEN 128 + v ELSE v

\* a record takes two bytes; the displacement is counted from its own byte
\* to the first byte of the next record
RecordBytes(i) ==
    <<Sleb7(ActionRecords[i].filter),
      Sleb7(IF ActionRecords[i].next = 0 THEN 0
            ELSE 2 * (ActionRecords[i].next - i) - 1)>>

RECURSIVE ActionBytesFrom(_)
ActionBytesFrom(i) ==
    IF i > Len(ActionRecords) THEN <<>> ELSE RecordBytes(i) \o ActionBytesFrom(i + 1)

\* the bytes of the action table: <<1, 0, 0, 1, 2, 0, 127, 1, 1, 0>>
ActionBytes == ActionBytesFrom(1)

\* the record that the action field a (1 + its byte offset) of a call site
\* names
RecordOf(a) == (a + 1) \div 2
\* the type table: two udata4 references, type 2 then type 1
TypeBytes == <<18, 0, 0, 0, 17, 0, 0, 0>>

\* what the table holds for a range: no entry at all, or an entry with
\* a landing pad and a catch, with a landing pad only, with neither, with
\* an action only, or with a landing pad and the chain of the negative filter
Shapes == {"absent", "catch", "cleanup", "none", "padless", "spec"}

\* the call-site entry of range i when its shape is sh
Entry(i, sh) ==
    [start |-> RangeStart(i), len |-> RangeLen(i),
     pad |-> IF sh \in {"catch", "cleanup", "spec"} THEN RangePad(i) ELSE 0,
     action |-> CASE sh = "catch" -> IF i % 2 = 1 THEN 1 ELSE 3
                  [] sh = "padless" -> IF i % 2 = 1 THEN 3 ELSE 1
                  [] sh = "spec" -> 7
                  [] OTHER -> 0]

\* the call-site table of a choice of shapes: sorted by start, no overlap
RECURSIVE TableOf(_, _)
TableOf(f, i) ==
    IF i > NRanges THEN <<>>
    ELSE IF f[i] = "absent" THEN TableOf(f, i + 1)
         ELSE <<Entry(i, f[i])>> \o TableOf(f, i + 1)

\* the table [(0,10,L1,A1), (10,5,0,0), (15,8,L2,0)], whatever follows it
IsExample(tbl) ==
    /\ Len(tbl) >= 3
    /\ tbl[1] = Entry(1, "catch")
    /\ tbl[2] = Entry(2, "none")
    /\ tbl[3] = Entry(3, "cleanup")

RECURSIVE Uleb(_)
Uleb(v) == IF v < 128 THEN <<v>> ELSE <<128 + (v % 128)>> \o Uleb(v \div 128)

Udata2(v) == <<v % 256, v \div 256>>

EncodeValue(enc, v) == IF enc = DW_EH_PE_uleb128 THEN Uleb(v) ELSE Udata2(v)

RECURSIVE CallSiteBytes(_, _, _)
CallSiteBytes(enc, tbl, k) ==
    IF k > Len(tbl) THEN <<>>
    ELSE EncodeValue(enc, tbl[k].start) \o EncodeValue(enc, tbl[k].len)
         \o EncodeValue(enc, tbl[k].pad) \o Uleb(tbl[k].action)
         \o CallSiteBytes(enc, tbl, k + 1)

\* the LSDA of table tbl: no LPStart, a udata4 type table, call sites in
\* encoding enc
EncodeLsda(enc, tbl) ==
    LET cs == CallSiteBytes(enc, tbl, 1)
        rest == <<enc>> \o Uleb(Len(cs)) \o cs \o ActionBytes \o TypeBytes
    IN <<DW_EH_PE_omit, DW_EH_PE_udata4>> \o Uleb(Len(rest)) \o rest

\* the locals of _yrt_exc_personality and of the _yrt_exc_scan_lsda it calls
NoFrame ==
    [pc |-> "none", actions |-> 0, lsda |-> NULL, cfa |-> 0, p |-> NULL,
     LPStart |-> 0, TTypeEncoding |-> 0, TType |-> NULL, CSEncoding |-> 0,
     actionTable |-> NULL, TTypeBase |-> 0, ip |-> 0,
     saw_cleanup |-> FALSE, saw_handler |-> FALSE, actionRecord |-> NULL,
     landingPad |-> 0, handler |-> 0, result |-> 0]

\* the fields of the exception header _yrt_exc_save writes
NoSave == [handler |-> 0, lsda |-> NULL, landingPad |-> 0, cfa |-> 0]

InitLsda ==
    /\ lsda = <<>>
    /\ ctx = [start |-> 0, ip |-> 0, ip_before_insn |-> 0, textBase |-> 0,
              dataBase |-> 0, cfa |-> 0, lsda |-> NULL, psave |-> 0, table |-> <<>>]
    /\ frame = NoFrame
    /\ saved = NoSave
    /\ uw = [phase |-> "load", ret |-> 0, term |-> "",
             regs |-> [gr0 |-> 0, gr1 |-> 0, ip |-> 0]]

\* _yrt_exc_terminate (msg, ...) called from the personality
LsdaTerminate(fr, msg) ==
    /\ frame' = [fr EXCEPT !.pc = "terminated"]
    /\ uw' = [uw EXCEPT !.term = msg, !.phase = "done"]
    /\ UNCHANGED <<lsda, ctx, saved>>

\* the unwinder reaches a frame of a function compiled with this personality:
\* its LSDA holds the call-site table of the shapes f in encoding enc, the
\* frame's ip is ip bytes past the region start
LoadFrame ==
    /\ uw.phase = "load"
    /\ \E f \in [1..NRanges -> Shapes],
          enc \in {DW_EH_PE_uleb128, DW_EH_PE_udata2},
          ip \in Ips, ipb \in {0, 1} :
         /\ lsda' = EncodeLsda(enc, TableOf(f, 1))
         /\ ctx' = [start |-> RegionStart, ip |-> RegionStart + ip,
                    ip_before_insn |-> ipb, textBase |-> 0, dataBase |-> 0,
                    cfa |-> 1, lsda |-> 1, psave |-> 4096, table |-> TableOf(f, 1)]
    /\ uw' = [uw EXCEPT !.phase = "search"]
    /\ UNCHANGED <<frame, saved>>

\* the actions the unwinder passes for this frame. The first call for a frame
\* is the search phase of _Unwind_RaiseException, or the only call of a
\* forced unwind (_Unwind_ForcedUnwind has no search phase); the cleanup
\* phase that follows a search marks the frame the search has found
ActionsOf(u) ==
    IF u.phase = "search" THEN {UA_SEARCH_PHASE, UA_CLEANUP_PHASE + UA_FORCE_UNWIND}
    ELSE IF u.ret = URC_HANDLER_FOUND THEN {UA_CLEANUP_PHASE + UA_HANDLER_FRAME}
         ELSE {UA_CLEANUP_PHASE}

\* the return of _yrt_exc_personality with code r
PersonalityReturns(fr, r, regs) ==
    /\ frame' = [fr EXCEPT !.pc = "returned", !.result = r]
    /\ uw' = [uw EXCEPT !.ret = r, !.regs = regs,
                        !.phase = IF BitSet(fr.actions, UA_SEARCH_PHASE)
                                  THEN "cleanup" ELSE "done"]

\* _yrt_exc_personality from "if (landingPad == 0)" on (l. 344)
PersonalityTail(fr) ==
    IF fr.landingPad = 0
    THEN PersonalityReturns(fr, URC_CONTINUE_UNWIND, uw.regs)
    ELSE PersonalityReturns(fr, URC_INSTALL_CONTEXT,
                            [gr0 |-> 1, gr1 |-> fr.handler, ip |-> fr.landingPad])

\* a scan that takes the ip as the unwinder gives it
LookupIpUnadjusted(ip, ip_before_insn) == ip

\* "ip = _Unwind_GetIPInfo (context, &ip_before_insn);
\*  if (!ip_before_insn) ip -= 1;" (l. 269-271)
LookupIp(ip, ip_before_insn) == IF ip_before_insn = 0 THEN ip - 1 ELSE ip

\* _yrt_exc_scan_lsda up to the call-site loop (l. 243-275)
ScanHeader(fr) ==
    LET m == lsda
        p0 == fr.lsda
        LPStartEncoding == m[p0]
        lp == IF LPStartEncoding # DW_EH_PE_omit
              THEN yrt_exc_read_encoded_value(m, ctx, LPStartEncoding, p0 + 1, ctx.psave)
              ELSE Read(ctx.start, p0 + 1, "")
        TTypeEncoding == m[lp.p]
        tt == IF TTypeEncoding # DW_EH_PE_omit
              THEN yrt_exc_read_uleb128(m, lp.p + 1)
              ELSE Read(0, lp.p + 1, "")
        TType == IF TTypeEncoding # DW_EH_PE_omit THEN tt.p + tt.val ELSE NULL
        CSEncoding == m[tt.p]
        cs == yrt_exc_read_uleb128(m, tt.p + 1)
        tb == yrt_exc_base_of_encoded_value(TTypeEncoding, ctx)
    IN [fr EXCEPT !.pc = "callsite", !.p = cs.p, !.LPStart = lp.val,
                  !.TTypeEncoding = TTypeEncoding, !.TType = TType,
                  !.CSEncoding = CSEncoding, !.actionTable = cs.p + cs.val,
                  !.TTypeBase = tb.val,
                  !.ip = LookupIp(ctx.ip, ctx.ip_before_insn),
                  !.result = IF lp.term # "" THEN lp.term
                             ELSE IF tb.term # "" THEN tb.term ELSE ""]

\* a restore that leaves the handler index as it is
yrt_exc_restore_but_handler(fr, eh) ==
    [fr EXCEPT !.lsda = eh.lsda, !.landingPad = eh.landingPad, !.cfa = eh.cfa]

\* _yrt_exc_restore (unwindHeader, &handler, &lsda, &landingPad, &cfa)
yrt_exc_restore(fr, eh) ==
    [fr EXCEPT !.lsda = eh.lsda, !.handler = eh.handler,
               !.landingPad = eh.landingPad, !.cfa = eh.cfa]

\* a handler frame that is never taken for broken
NoLandingPadNever(fr) == FALSE

\* "if (landingPad == 0)" after the restore (l. 332)
NoLandingPad(fr) == fr.landingPad = 0

\* the unwinder calls _yrt_exc_personality for the frame. With
\* _UA_CLEANUP_PHASE | _UA_HANDLER_FRAME it restores what the search phase
\* saved and installs it; otherwise it starts _yrt_exc_scan_lsda
PersonalityCall(actions) ==
    /\ uw.phase \in {"search", "cleanup"}
    /\ frame.pc \in {"none", "returned"}
    /\ actions \in ActionsOf(uw)
    /\ IF actions = UA_CLEANUP_PHASE + UA_HANDLER_FRAME
       THEN LET fr == yrt_exc_restore([NoFrame EXCEPT !.actions = actions], saved)
            IN IF NoLandingPad(fr)
               THEN LsdaTerminate(fr, "unwind error")
               ELSE PersonalityTail(fr) /\ UNCHANGED <<lsda, ctx, saved>>
       ELSE LET fr == [NoFrame EXCEPT !.actions = actions, !.lsda = ctx.lsda,
                                      !.cfa = ctx.cfa]
            IN IF fr.lsda = NULL
               THEN PersonalityReturns(fr, URC_CONTINUE_UNWIND, uw.regs)
                    /\ UNCHANGED <<lsda, ctx, saved>>
               ELSE \E h \in {ScanHeader(fr)} :
                       IF h.result # ""
                       THEN LsdaTerminate([h EXCEPT !.result = 0], h.result)
                       ELSE /\ frame' = [h EXCEPT !.result = 0]
                            /\ UNCHANGED <<lsda, ctx, saved, uw>>

\* one turn of the call-site loop of _yrt_exc_scan_lsda (l. 277-290)
ScanCallSite ==
    /\ frame.pc = "callsite"
    /\ frame.p < frame.actionTable
    /\ \E s1 \in {yrt_exc_read_encoded_value(lsda, NullContext, frame.CSEncoding, frame.p, ctx.psave)} :
       \E s2 \in {yrt_exc_read_encoded_value(lsda, NullContext, frame.CSEncoding, s1.p, ctx.psave)} :
       \E s3 \in {yrt_exc_read_encoded_value(lsda, NullContext, frame.CSEncoding, s2.p, ctx.psave)} :
       \E s4 \in {yrt_exc_read_uleb128(lsda, s3.p)} :
       LET CSStart == s1.val
           CSLen == s2.val
           CSLandingPad == s3.val
           CSAction == s4.val
           term == IF s1.term # "" THEN s1.term
                   ELSE IF s2.term # "" THEN s2.term ELSE s3.term
       IN IF term # ""
          THEN LsdaTerminate(frame, term)
          ELSE /\ frame' =
                    IF CSBefore(frame.ip, ctx.start, CSStart)
                    THEN [frame EXCEPT !.p = frame.actionTable]
                    ELSE IF CSInside(frame.ip, ctx.start, CSStart, CSLen)
                         THEN [frame EXCEPT
                                 !.p = s4.p,
                                 !.pc = "actions",
                                 !.landingPad = IF CSLandingPad # 0
                                                THEN frame.LPStart + CSLandingPad ELSE @,
                                 !.actionRecord = IF CSAction # 0
                                                  THEN frame.actionTable + CSAction - 1 ELSE @]
                         ELSE [frame EXCEPT !.p = s4.p]
               /\ UNCHANGED <<lsda, ctx, saved, uw>>

\* a scan that takes a landing pad without action record for nothing
ScanNoRecordNothing(fr) == Lookup(fr.handler, FALSE, FALSE, "")

\* "else if (actionRecord == NULL) saw_cleanup = 1" (l. 293-294): the handler
\* index keeps the value the caller gave it
ScanNoRecord(fr) == Lookup(fr.handler, FALSE, TRUE, "")

\* a scan that takes no call for a call of the search phase
InSearchPhaseNever(actions) == FALSE

\* "if (actions & _UA_SEARCH_PHASE)" (l. 305)
InSearchPhase(actions) == BitSet(actions, UA_SEARCH_PHASE)

\* the call-site loop is over
LookupDone == frame.pc = "actions" \/ (frame.pc = "callsite" /\ frame.p >= frame.actionTable)

\* _yrt_exc_scan_lsda after the call-site loop (l. 292-313), and the rest of
\* _yrt_exc_personality. The parameter landingPad tested at l. 292 is the
\* address of the caller's variable, which is never null. A read outside
\* the LSDA faults or gives some value.
ScanActions ==
    /\ LookupDone
    /\ \E look \in {IF frame.actionRecord = NULL
                    THEN ScanNoRecord(frame)
                    ELSE yrt_exc_action_table_lookup(lsda, frame.actions, frame.actionRecord,
                             frame.TTypeBase, frame.TType, frame.TTypeEncoding,
                             FALSE, FALSE, Len(lsda))} :
       \E faults \in (IF look.term = "outside" THEN BOOLEAN ELSE {FALSE}) :
       LET fr == [frame EXCEPT !.saw_handler = look.saw_handler,
                               !.saw_cleanup = look.saw_cleanup,
                               !.handler = look.handler]
       IN IF faults
          THEN LsdaTerminate(frame, "fault")
          ELSE IF look.term \notin {"", "outside"}
               THEN LsdaTerminate(frame, look.term)
               ELSE IF ~fr.saw_cleanup /\ ~fr.saw_handler
               THEN PersonalityReturns(fr, URC_CONTINUE_UNWIND, uw.regs)
                    /\ UNCHANGED <<lsda, ctx, saved>>
               ELSE IF InSearchPhase(fr.actions)
                    THEN IF ~fr.saw_handler
                         THEN PersonalityReturns(fr, URC_CONTINUE_UNWIND, uw.regs)
                              /\ UNCHANGED <<lsda, ctx, saved>>
                         ELSE /\ saved' = [handler |-> fr.handler, lsda |-> fr.lsda,
                                           landingPad |-> fr.landingPad, cfa |-> fr.cfa]
                              /\ PersonalityReturns(fr, URC_HANDLER_FOUND, uw.regs)
                              /\ UNCHANGED <<lsda, ctx>>
                    ELSE PersonalityTail(fr) /\ UNCHANGED <<lsda, ctx, saved>>

NextLsda ==
    \/ LoadFrame /\ UNCHANGED offLsda
    \/ \E actions \in ActionsOf(uw) : PersonalityCall(actions) /\ UNCHANGED offLsda
    \/ ScanCallSite /\ UNCHANGED offLsda
    \/ ScanActions /\ UNCHANGED offLsda

(***************************************************************************)
(* SpecNest: one thread that throws while exceptions are in flight, and    *)
(* _yrt_exc_personality of src/c/except.c, which chains them. The search   *)
(* phase is the environment: it leaves in the header of the exception      *)
(* what _yrt_exc_save writes for the frame of the handler it has found     *)
(* (_yrt_exc_scan_lsda of src/c/except.c is a stub that ends the process). *)
(***************************************************************************)
\* the payloads a throw is given: an object of class Exception, or NULL
NestPayloads == {NULL} \cup Payloads

\* the functions with a handler (their LSDA), the frames they run in
\* (their CFA), and where the search phase finds a handler: in a frame, in
\* another frame of the same function, in a frame of another function
NestLsdas == 1..2
NestCfas == 1..2
NestContexts == {<<1, 1>>, <<1, 2>>, <<2, 2>>}
NestHandlers == 1..2

\* the landing pad of the handler of a function
NestPad(lsd, handler) == 16 * lsd + handler

\* _yrt_exc_save (unwindHeader, cfa, handler, lsda, landingPad) of except.c
c_yrt_exc_save(m, unwindHeader, cfa, handler, lsd, landingPad) ==
    [m EXCEPT !.hdr[unwindHeader].canonicalFrameAddress = cfa,
              !.hdr[unwindHeader].handler = handler,
              !.hdr[unwindHeader].languageSpecificData = lsd,
              !.hdr[unwindHeader].landingPad = landingPad]

\* _yrt_exc_restore (unwindHeader, &handler, &lsda, &landingPad, &cfa) of
\* except.c
c_yrt_exc_restore(m, unwindHeader) ==
    [cfa |-> m.hdr[unwindHeader].canonicalFrameAddress,
     handler |-> m.hdr[unwindHeader].handler,
     lsda |-> m.hdr[unwindHeader].languageSpecificData,
     landingPad |-> m.hdr[unwindHeader].landingPad]

\* "while (n-> next != NULL) n = n-> next" from the object n: the last
\* object of the chain, NULL when the walk does not end
RECURSIVE ObjTail(_, _, _)
ObjTail(onext, n, fuel) ==
    IF onext[n] = NULL THEN n
    ELSE IF fuel = 0 THEN NULL
         ELSE ObjTail(onext, onext[n], fuel - 1)

\* the turns of a loop over the headers after which it has come back to a
\* header it left unchanged
ChainFuel == 2 * Cardinality(Headers) + 1

\* "if (eh-> object != NULL && ehn-> object != NULL)" (l. 266)
BothCarry(m, eh, ehn) == m.hdr[eh].object # NULL /\ m.hdr[ehn].object # NULL

\* the loop "while (eh-> next)" of _yrt_exc_personality (l. 257-290). K holds
\* the globals (m), the next of every payload (onext) and the locals of the
\* function; out becomes "break" at the break, "loops" when the loop has no
\* end
RECURSIVE ChainLoop(_, _, _)
ChainLoop(K, unwindHeader, fuel) ==
    LET m == K.m
        eh == K.eh
        ehn == m.hdr[eh].next
    IN IF m.aborted \/ K.out # "" \/ ehn = NULL THEN K
       ELSE IF fuel = 0 THEN [K EXCEPT !.out = "loops"]
       ELSE LET nx == c_yrt_exc_restore(m, ehn)
            IN IF BothCarry(m, eh, ehn)
               THEN ChainLoop([K EXCEPT !.currentLsd = nx.lsda,
                                        !.currentCfa = nx.cfa,
                                        !.eh = ehn,
                                        !.bypassed = TRUE], unwindHeader, fuel - 1)
               ELSE IF K.currentLsd # nx.lsda /\ K.currentCfa # nx.cfa
                    THEN [K EXCEPT !.out = "break"]
                    ELSE IF m.hdr[ehn].object = NULL
                         THEN [K EXCEPT !.m = Fault(m)]
                         ELSE LET n == ObjTail(K.onext, m.hdr[ehn].object, MaxPayload)
                                  upd == nx.handler # K.handler /\ ~K.bypassed
                                  handler2 == IF upd THEN nx.handler ELSE K.handler
                                  m1 == [m EXCEPT !.hdr[eh].object = m.hdr[ehn].object]
                                  m2 == IF upd
                                        THEN c_yrt_exc_save(m1, unwindHeader, K.cfa, handler2,
                                                            K.lsda, K.landingPad)
                                        ELSE m1
                                  m3 == [m2 EXCEPT !.hdr[eh].next = m2.hdr[ehn].next]
                              IN IF n = NULL THEN [K EXCEPT !.out = "loops"]
                                 ELSE ChainLoop(
                                        [K EXCEPT !.m = Unwind_DeleteException(m3, ehn),
                                                  !.onext = [K.onext EXCEPT ![n] = m.hdr[eh].object],
                                                  !.handler = handler2],
                                        unwindHeader, fuel - 1)

\* "if (bypassed == 1) { ... }" (l. 292-297)
ChainBypassed(K, unwindHeader) ==
    LET m == K.m
        ehn == m.hdr[unwindHeader].next
    IN IF m.aborted \/ K.out = "loops" \/ ~K.bypassed THEN K
       ELSE IF ehn = NULL THEN [K EXCEPT !.m = Fault(m)]
            ELSE [K EXCEPT !.m = Unwind_DeleteException(
                                    [m EXCEPT !.hdr[unwindHeader].next = m.hdr[ehn].next],
                                    ehn)]

\* what a call of _yrt_exc_personality leaves: the globals, the payloads,
\* the return code (0 when it did not return), the registers it has set,
\* and whether it is still looping
Resolved(m, onext, ret, regs, loops) ==
    [m |-> m, onext |-> onext, ret |-> ret, regs |-> regs, loops |-> loops]

\* _yrt_exc_personality of except.c (l. 224-305), called with the registers
\* regs for the exception unwindHeader of class gyc or not, in a frame whose
\* LSDA is ctxLsda
c_yrt_exc_personality(m, onext, regs, actions, gyc, unwindHeader, ctxLsda) ==
    IF actions = UA_CLEANUP_PHASE + UA_HANDLER_FRAME /\ gyc
    THEN LET r == c_yrt_exc_restore(m, unwindHeader)
             K0 == [m |-> m, onext |-> onext, eh |-> unwindHeader,
                    currentLsd |-> r.lsda, currentCfa |-> r.cfa, bypassed |-> FALSE,
                    handler |-> r.handler, lsda |-> r.lsda, cfa |-> r.cfa,
                    landingPad |-> r.landingPad, out |-> ""]
             K == ChainBypassed(ChainLoop(K0, unwindHeader, ChainFuel), unwindHeader)
         IN IF r.landingPad = 0
            THEN Resolved(yrt_exc_terminate(m, "Unwind error"), onext, 0, regs, FALSE)
            ELSE IF r.handler < 0
                 THEN Resolved(yrt_exc_terminate(m, "unwind error"), onext, 0, regs, FALSE)
                 ELSE IF K.out = "loops"
                      THEN Resolved(K.m, K.onext, 0, regs, TRUE)
                      ELSE IF K.m.aborted
                           THEN Resolved(K.m, K.onext, 0, regs, FALSE)
                           ELSE Resolved(K.m, K.onext, URC_INSTALL_CONTEXT,
                                         [gr0 |-> unwindHeader, gr1 |-> K.handler,
                                          ip |-> r.landingPad], FALSE)
    ELSE IF ctxLsda = NULL
         THEN Resolved(m, onext, URC_CONTINUE_UNWIND, regs, FALSE)
         ELSE Resolved(yrt_exc_terminate(m, "TODO scan"), onext, 0, regs, FALSE)

\* the payloads linked from the object o, in order (cut at n links)
RECURSIVE ObjChain(_, _, _)
ObjChain(onext, o, n) ==
    IF o = NULL \/ n = 0 THEN <<>> ELSE <<o>> \o ObjChain(onext, onext[o], n - 1)

\* the payloads that a header of the process leads to
HeldPayloads ==
    UNION {SeqElems(ObjChain(nest.onext, hdr[h].object, MaxPayload)) : h \in Headers}

NoRegs == [gr0 |-> NULL, gr1 |-> 0, ip |-> 0]

InitNest ==
    nest = [at |-> "run", onext |-> [o \in Payloads |-> NULL], ret |-> 0,
            regs |-> NoRegs, caught |-> NULL, thrown |-> NULL, throws |-> 0,
            nulls |-> FALSE, cleaned |-> FALSE]

\* what a step of the thread leaves of nest when the process has ended
NestAt(m, loops, then) == IF m.aborted THEN "ended" ELSE IF loops THEN "hung" ELSE then

\* code of the program, or a cleanup that runs while an exception is unwound
\* to the handler found for it, throws: _yrt_exc_throw (.., data) with a new
\* object, or with NULL
NestThrow(data) ==
    /\ ~aborted
    /\ nest.at \in {"run", "found"}
    /\ nest.throws < MaxThrows
    /\ data \notin HeldPayloads
    /\ LET r == yrt_exc_throw_raise(Machine, data, Calloc)
       IN /\ SetMachine(r[1])
          /\ nest' = [nest EXCEPT !.at = NestAt(r[1], FALSE, "raising"),
                                  !.onext = [o \in Payloads |->
                                               IF o = data THEN NULL ELSE nest.onext[o]],
                                  !.thrown = r[2],
                                  !.throws = @ + 1,
                                  !.nulls = @ \/ data = NULL]

\* the search phase has found a handler for the exception thrown last, in the
\* frame cfa of the function lsd, and saved it in the header
NestSearch(lsd, cfa, handler) ==
    /\ ~aborted
    /\ nest.at = "raising"
    /\ SetMachine(c_yrt_exc_save(Machine, stack, cfa, handler, lsd, NestPad(lsd, handler)))
    /\ nest' = [nest EXCEPT !.at = "found"]

\* the unwinder calls the personality for a frame that is not the frame of
\* the handler: _yrt_exc_scan_lsda returns at once without LSDA, and ends
\* the process with one
NestPassFrame(ctxLsda) ==
    /\ ~aborted
    /\ nest.at = "found"
    /\ LET r == c_yrt_exc_personality(Machine, nest.onext, nest.regs, UA_CLEANUP_PHASE,
                                     TRUE, stack, ctxLsda)
       IN /\ SetMachine(r.m)
          /\ nest' = [nest EXCEPT !.at = NestAt(r.m, r.loops, "found"), !.ret = r.ret]

\* the unwinder has reached the frame of the handler and calls the
\* personality with _UA_CLEANUP_PHASE | _UA_HANDLER_FRAME
NestResolve ==
    /\ ~aborted
    /\ nest.at = "found"
    /\ LET r == c_yrt_exc_personality(Machine, nest.onext, nest.regs,
                                     UA_CLEANUP_PHASE + UA_HANDLER_FRAME, TRUE, stack, NULL)
       IN /\ SetMachine(r.m)
          /\ nest' = [nest EXCEPT !.at = NestAt(r.m, r.loops, "landed"),
                                  !.onext = r.onext, !.ret = r.ret, !.regs = r.regs]

\* the landing pad calls _yrt_exc_begin_catch with the header of the first
\* result register
NestCatch ==
    /\ ~aborted
    /\ nest.at = "landed"
    /\ LET r == yrt_exc_begin_catch(Machine, nest.regs.gr0)
       IN /\ SetMachine(r[1])
          /\ nest' = [nest EXCEPT !.at = NestAt(r[1], FALSE, "run"), !.caught = r[2],
                                  !.ret = 0]

\* a foreign runtime has caught the exception thrown last, or the unwind
\* library gives it up: header->unwindHeader.exception_cleanup (code, header),
\* and the code of the program goes on when the callback returns
NestCleanup(code) ==
    /\ ~aborted
    /\ nest.at = "found"
    /\ hdr[stack].cleanup
    /\ LET m == yrt_exc_exception_cleanup(Machine, code, stack)
       IN /\ SetMachine(m)
          /\ nest' = [nest EXCEPT !.at = NestAt(m, FALSE, "run"), !.cleaned = TRUE]

NextNest ==
    \/ \E data \in NestPayloads : NestThrow(data) /\ UNCHANGED offNest
    \/ \E c \in NestContexts, handler \in NestHandlers :
         NestSearch(c[1], c[2], handler) /\ UNCHANGED offNest
    \/ \E ctxLsda \in {NULL, 1} : NestPassFrame(ctxLsda) /\ UNCHANGED offNest
    \/ NestResolve /\ UNCHANGED offNest
    \/ NestCatch /\ UNCHANGED offNest
    \/ \E code \in {URC_FOREIGN_EXCEPTION_CAUGHT, URC_FATAL_PHASE2_ERROR} :
         NestCleanup(code) /\ UNCHANGED offNest

(***************************************************************************)
(* SpecLeb: the LEB128 readers of src/rt/except/personnality.c on the      *)
(* encodings of single values. The encodings are those of the DWARF        *)
(* standard, which the compiler writes in the LSDA.                        *)
(***************************************************************************)
\* the bits a magnitude is made of: both ends of every 7-bit group, and the
\* highest bit
LebBits == {i \in 0..MaxLebBit : i % 7 \in {0, 6}} \cup {MaxLebBit}

\* every bit of a word
AllBits == 0..(WordBits - 1)

\* x >> 7 of an unsigned word
ShiftRight7(w) == {i - 7 : i \in {j \in w : j >= 7}}

\* x >> 7 of a signed word: the sign bit fills the top
ShiftRight7Signed(w) ==
    ShiftRight7(w) \cup (IF (WordBits - 1) \in w THEN (WordBits - 7)..(WordBits - 1) ELSE {})

\* ULEB128 of the word w (DWARF 5, appendix C, figure C.1)
RECURSIVE UlebEncode(_)
UlebEncode(w) ==
    LET low == BitSum({i \in w : i < 7})
        rest == ShiftRight7(w)
    IN IF rest = {} THEN <<low>> ELSE <<128 + low>> \o UlebEncode(rest)

\* SLEB128 of the signed word w (DWARF 5, appendix C, figure C.2)
RECURSIVE SlebEncode(_)
SlebEncode(w) ==
    LET low == BitSum({i \in w : i < 7})
        rest == ShiftRight7Signed(w)
        done == \/ rest = {} /\ 6 \notin w
                \/ rest = AllBits /\ 6 \in w
    IN IF done THEN <<low>> ELSE <<128 + low>> \o SlebEncode(rest)

\* the byte before the encoding and the bytes after it
LebBefore == <<255>>
LebAfter == <<255, 0>>

NoLeb == [stage |-> "none", kind |-> "none", v |-> {}, enc |-> <<>>, m |-> <<>>,
          q |-> NULL, res |-> Read({}, NULL, "")]

InitLeb == leb = NoLeb

\* an unsigned value is encoded, the cursor is put on its first byte
LebEncodeUnsigned ==
    /\ leb.stage = "none"
    /\ \E w \in SUBSET LebBits :
         leb' = [NoLeb EXCEPT !.stage = "encoded", !.kind = "uleb", !.v = w,
                              !.enc = UlebEncode(w),
                              !.m = LebBefore \o UlebEncode(w) \o LebAfter,
                              !.q = Len(LebBefore) + 1]

\* a signed value is encoded: a magnitude, or the negative number whose
\* complement it is
LebEncodeSigned ==
    /\ leb.stage = "none"
    /\ \E s \in SUBSET LebBits, neg \in BOOLEAN :
         LET w == IF neg THEN AllBits \ s ELSE s
         IN leb' = [NoLeb EXCEPT !.stage = "encoded", !.kind = "sleb", !.v = w,
                                 !.enc = SlebEncode(w),
                                 !.m = LebBefore \o SlebEncode(w) \o LebAfter,
                                 !.q = Len(LebBefore) + 1]

\* _yrt_exc_read_uleb128 (&p)
LebReadUnsigned ==
    /\ leb.stage = "encoded"
    /\ leb.kind = "uleb"
    /\ leb' = [leb EXCEPT !.stage = "read", !.res = read_uleb128_bits(leb.m, leb.q)]

\* _yrt_exc_read_sleb128 (&p)
LebReadSigned ==
    /\ leb.stage = "encoded"
    /\ leb.kind = "sleb"
    /\ leb' = [leb EXCEPT !.stage = "read", !.res = read_sleb128_bits(leb.m, leb.q)]

NextLeb ==
    \/ LebEncodeUnsigned /\ UNCHANGED offLeb
    \/ LebEncodeSigned /\ UNCHANGED offLeb
    \/ LebReadUnsigned /\ UNCHANGED offLeb
    \/ LebReadSigned /\ UNCHANGED offLeb

(***************************************************************************)
(* SpecDec: the encoded-value decoder of src/rt/except/personnality.c      *)
(* called with every encoding byte. The memory is DecWords words of        *)
(* PtrSize bytes; the word at address a holds WordAt(a), but for the word  *)
(* the cursor is on, that holds the encoded value.                         *)
(***************************************************************************)
\* the first address of the k-th word
WordAddr(k) == (k - 1) * PtrSize + 1

\* what the k-th word holds when no value is encoded in it
WordAt(k) == 100 + k

DecMemLen == DecWords * PtrSize

\* the relocation bases the unwinder gives for the frame
DecContext == [textBase |-> WordAddr(3) - 1, dataBase |-> WordAddr(4) - 1,
               start |-> WordAddr(5) - 1]

\* the address of the variable that holds the cursor, in the caller's frame
DecCursorAddr == WordAddr(6) - 1

\* the raw values encoded: 0, two values that lead into the memory from
\* every base, and a value of two bytes that leads out of it
RawValues == {0, PtrSize, 2 * PtrSize, 256 + PtrSize}

\* where the cursor is put
DecCursors == {WordAddr(1), WordAddr(2)}

\* v in n bytes, lowest first
RECURSIVE LittleEndian(_, _)
LittleEndian(v, n) ==
    IF n = 0 THEN <<>> ELSE <<v % 256>> \o LittleEndian(v \div 256, n - 1)

\* how many bytes a shape reads for a value below 2^14, and the bytes it
\* reads them from
ShapeBytes(fmt, v) ==
    CASE fmt \in {DW_EH_PE_uleb128, DW_EH_PE_sleb128} -> Uleb(v)
      [] fmt \in {DW_EH_PE_udata2, DW_EH_PE_sdata2} -> LittleEndian(v, 2)
      [] fmt \in {DW_EH_PE_udata4, DW_EH_PE_sdata4} -> LittleEndian(v, 4)
      [] OTHER -> LittleEndian(v, PtrSize)

\* the memory with v encoded for the shape fmt in the word at q
DecMemory(fmt, v, q) ==
    [a \in 1..DecMemLen |->
        LET k == ((a - 1) \div PtrSize) + 1
            i == a - WordAddr(k)
            bytes == ShapeBytes(fmt, v)
        IN IF WordAddr(k) = q
           THEN (IF i < Len(bytes) THEN bytes[i + 1] ELSE 0)
           ELSE (IF i = 0 THEN WordAt(k) ELSE 0)]

NoDec == [op |-> "none", encoding |-> 0, v |-> 0, q |-> NULL, m |-> <<>>,
          out |-> Read(0, NULL, "")]

InitDec == dec = NoDec

\* _yrt_exc_size_of_encoded_value (encoding)
DecSizeOf ==
    /\ dec.op = "none"
    /\ \E encoding \in 0..255 :
         dec' = [NoDec EXCEPT !.op = "size", !.encoding = encoding,
                              !.out = yrt_exc_size_of_encoded_value(encoding)]

\* _yrt_exc_base_of_encoded_value (encoding, context)
DecBaseOf ==
    /\ dec.op = "none"
    /\ \E encoding \in 0..255 :
         dec' = [NoDec EXCEPT !.op = "base", !.encoding = encoding,
                              !.out = yrt_exc_base_of_encoded_value(encoding, DecContext)]

\* _yrt_exc_read_encoded_value (context, encoding, &p), p on the value v
DecRead ==
    /\ dec.op = "none"
    /\ \E encoding \in 0..255, v \in RawValues, q \in DecCursors :
         \E m \in {DecMemory(encoding % 16, v, q)} :
           dec' = [op |-> "read", encoding |-> encoding, v |-> v, q |-> q, m |-> m,
                   out |-> yrt_exc_read_encoded_value(m, DecContext, encoding, q,
                                                      DecCursorAddr)]

NextDec ==
    \/ DecSizeOf /\ UNCHANGED offDec
    \/ DecBaseOf /\ UNCHANGED offDec
    \/ DecRead /\ UNCHANGED offDec

(***************************************************************************)
(* SpecPanic: the termination paths of src/rt/except/panic.c and the       *)
(* SIGSEGV handler of src/rt/run.c, run by the threads of one process.     *)
(* The two static flags are plain variables that the threads read and      *)
(* write without synchronisation, one statement at a time.                 *)
(***************************************************************************)
\* the statements a thread runs when no termination path has begun
UserCode == "run"

InitPanic ==
    /\ started = FALSE
    /\ YRT_DEBUG = 0
    /\ rt_terminating = 0
    /\ first = 0
    /\ at = [t \in Threads |-> UserCode]
    /\ path = [t \in Threads |-> "none"]
    /\ handling = [t \in Threads |-> FALSE]
    /\ printed = [t \in Threads |-> <<>>]
    /\ ended = "no"
    /\ resolutions = 0
    /\ sigs = <<>>
    /\ tcalls = [t \in Threads |-> "none"]

Running == started /\ ended = "no"

\* fprintf (stderr, ..) by thread t
Fprintf(t, text) == printed' = [printed EXCEPT ![t] = Append(@, text)]

\* abort ()
Abort == ended' = "abort"

\* thread t runs a call of _yrt_exc_terminate that has not reached abort
InTerminate(t) == tcalls[t] # "none"

\* _yrt_run_main (debug = 0) or _yrt_run_main_debug (debug = 1), up to the
\* call of y_main
RunMain(debug) ==
    /\ ~started
    /\ started' = TRUE
    /\ YRT_DEBUG' = debug
    /\ UNCHANGED <<rt_terminating, first, at, path, handling, printed, ended,
                   resolutions, sigs, tcalls>>

\* thread t calls _yrt_exc_terminate (msg, file, func, line)
CallTerminate(t) ==
    /\ Running
    /\ at[t] = UserCode
    /\ at' = [at EXCEPT ![t] = "terminate_test"]
    /\ tcalls' = [tcalls EXCEPT ![t] =
                    IF \E u \in Threads : InTerminate(u) THEN "nested" ELSE "first"]
    /\ UNCHANGED <<started, YRT_DEBUG, rt_terminating, first, path, handling,
                   printed, ended, resolutions, sigs>>

\* if (terminating) { fprintf (..); abort (); }
TerminateTest(t) ==
    /\ Running
    /\ at[t] = "terminate_test"
    /\ IF rt_terminating # 0
       THEN /\ Fprintf(t, "terminating called recursively")
            /\ Abort
            /\ UNCHANGED at
       ELSE /\ at' = [at EXCEPT ![t] = "terminate_set"]
            /\ UNCHANGED <<printed, ended>>
    /\ UNCHANGED <<started, YRT_DEBUG, rt_terminating, first, path, handling,
                   resolutions, sigs, tcalls>>

\* terminating = 1; fprintf (stderr, "terminate (%s/%s:%u): %s\n", ..);
TerminateSet(t) ==
    /\ Running
    /\ at[t] = "terminate_set"
    /\ rt_terminating' = 1
    /\ Fprintf(t, "terminate")
    /\ at' = [at EXCEPT ![t] = "trace"]
    /\ path' = [path EXCEPT ![t] = "terminate"]
    /\ UNCHANGED <<started, YRT_DEBUG, first, handling, ended, resolutions, sigs,
                   tcalls>>

\* thread t calls _yrt_exc_panic (file, function, line): the two fprintf
CallPanic(t) ==
    /\ Running
    /\ at[t] = UserCode
    /\ Fprintf(t, "Panic in file")
    /\ at' = [at EXCEPT ![t] = "trace"]
    /\ path' = [path EXCEPT ![t] = "panic"]
    /\ UNCHANGED <<started, YRT_DEBUG, rt_terminating, first, handling, ended,
                   resolutions, sigs, tcalls>>

\* _yrt_exc_resolve_stack_trace (_yrt_exc_get_stack_trace ()): both return an
\* empty slice at once unless the program runs in debug mode, and then
\* nothing is printed and abort () is next
TraceBegin(t) ==
    /\ Running
    /\ at[t] = "trace"
    /\ IF YRT_DEBUG = 1
       THEN /\ resolutions' = resolutions + 1
            /\ at' = [at EXCEPT ![t] = "resolving"]
            /\ UNCHANGED <<printed, ended>>
       ELSE /\ IF path[t] = "segfault" THEN Fprintf(t, "\n") ELSE UNCHANGED printed
            /\ Abort
            /\ UNCHANGED <<at, resolutions>>
    /\ UNCHANGED <<started, YRT_DEBUG, rt_terminating, first, path, handling, sigs,
                   tcalls>>

\* the resolution comes back: the trace is printed, then abort ()
TraceEnd(t) ==
    /\ Running
    /\ at[t] = "resolving"
    /\ printed' = [printed EXCEPT ![t] =
                     IF path[t] = "segfault" THEN @ \o <<"trace", "\n">>
                     ELSE Append(@, "trace")]
    /\ Abort
    /\ UNCHANGED <<started, YRT_DEBUG, rt_terminating, first, at, path, handling,
                   resolutions, sigs, tcalls>>

\* where a thread can make a memory fault: in the code of the program, and in
\* the resolution of a stack trace (it allocates and reads debug sections)
CanFault(t) == at[t] \in {UserCode, "resolving"}

\* thread t makes a memory fault outside bt_sighandler: the kernel calls
\* bt_sighandler on that thread (installHandler)
Sigsegv(t) ==
    /\ Running
    /\ CanFault(t)
    /\ ~handling[t]
    /\ handling' = [handling EXCEPT ![t] = TRUE]
    /\ at' = [at EXCEPT ![t] = "handler_test"]
    /\ sigs' = Append(sigs, [t |-> t, took |-> "pending"])
    /\ UNCHANGED <<started, YRT_DEBUG, rt_terminating, first, path, printed, ended,
                   resolutions, tcalls>>

\* thread t makes a memory fault inside bt_sighandler, where SIGSEGV is
\* blocked (sa_mask is empty and sa_flags has no SA_NODEFER): what happens
\* is not defined, the handler is called again or the process is killed
SigsegvInHandler(t, again) ==
    /\ Running
    /\ CanFault(t)
    /\ handling[t]
    /\ IF again
       THEN /\ at' = [at EXCEPT ![t] = "handler_test"]
            /\ sigs' = Append(sigs, [t |-> t, took |-> "pending"])
            /\ UNCHANGED ended
       ELSE /\ ended' = "killed"
            /\ UNCHANGED <<at, sigs>>
    /\ UNCHANGED <<started, YRT_DEBUG, rt_terminating, first, path, handling,
                   printed, resolutions, tcalls>>

\* the delivery that thread t is handling
Delivery(t) == CHOOSE k \in 1..Len(sigs) :
                  sigs[k].t = t /\ \A j \in (k + 1)..Len(sigs) : sigs[j].t # t

\* bt_sighandler: if (first == 0) .. else _yrt_exc_panic_no_trace ()
HandlerTest(t) ==
    /\ Running
    /\ at[t] = "handler_test"
    /\ IF first = 0
       THEN /\ at' = [at EXCEPT ![t] = "handler_set"]
            /\ UNCHANGED <<printed, ended, sigs>>
       ELSE /\ Fprintf(t, "Panic during stacktrace !")
            /\ Abort
            /\ sigs' = [sigs EXCEPT ![Delivery(t)].took = "no_trace"]
            /\ UNCHANGED at
    /\ UNCHANGED <<started, YRT_DEBUG, rt_terminating, first, path, handling,
                   resolutions, tcalls>>

\* first = 1; _yrt_exc_panic_seg_fault (): fprintf (stderr, "Segfault - ")
HandlerSet(t) ==
    /\ Running
    /\ at[t] = "handler_set"
    /\ first' = 1
    /\ Fprintf(t, "Segfault - ")
    /\ at' = [at EXCEPT ![t] = "trace"]
    /\ path' = [path EXCEPT ![t] = "segfault"]
    /\ sigs' = [sigs EXCEPT ![Delivery(t)].took = "trace"]
    /\ UNCHANGED <<started, YRT_DEBUG, rt_terminating, handling, ended, resolutions,
                   tcalls>>

\* the statements of the runtime that thread t runs once it is in one of
\* the paths
PanicStep(t) ==
    \/ TerminateTest(t)
    \/ TerminateSet(t)
    \/ TraceBegin(t)
    \/ TraceEnd(t)
    \/ HandlerTest(t)
    \/ HandlerSet(t)

NextPanic ==
    \/ \E debug \in {0, 1} : RunMain(debug) /\ UNCHANGED offPanic
    \/ \E t \in Threads : CallTerminate(t) /\ UNCHANGED offPanic
    \/ \E t \in Threads : CallPanic(t) /\ UNCHANGED offPanic
    \/ \E t \in Threads : Sigsegv(t) /\ UNCHANGED offPanic
    \/ \E t \in Threads, again \in BOOLEAN : SigsegvInHandler(t, again) /\ UNCHANGED offPanic
    \/ \E t \in Threads : TerminateTest(t) /\ UNCHANGED offPanic
    \/ \E t \in Threads : TerminateSet(t) /\ UNCHANGED offPanic
    \/ \E t \in Threads : TraceBegin(t) /\ UNCHANGED offPanic
    \/ \E t \in Threads : TraceEnd(t) /\ UNCHANGED offPanic
    \/ \E t \in Threads : HandlerTest(t) /\ UNCHANGED offPanic
    \/ \E t \in Threads : HandlerSet(t) /\ UNCHANGED offPanic

(***************************************************************************)
(* SpecFut: src/rt/concurrency/future.c. One future: the thread that       *)
(* spawns it, the worker thread _yrt_future_main runs in, and the threads  *)
(* that call _yrt_wait_future, one statement of each at a time.            *)
(***************************************************************************)
Waiters == 1..NWaiters

\* what a closure leaves in the buffer it is given
Results == 1..MaxResult

\* the sizes a future is spawned with: no value, a value
ValueSizes == {0, 1}

\* the buffer GC_malloc (content-> valueSize) returns in _yrt_future_main
DataPtr == 1

\* result.id, the id _yrt_thread_create gives the worker
WorkerId == 1

\* "thread_local _yrt_thread_t selfId" (l. 6): no statement assigns it
selfId(t) == 0

\* the futures a waiter is given: one whose content is NULL, the spawned one
WaitArgs == {"null", "spawned"}

\* "_yrt_thread_sem_init (&result.content-> wait, 0, 0)" (l. 12)
SemInit == 0

\* before _yrt_spawn_future: nothing allocated, no thread but the spawner
InitFut ==
    fut = [wait |-> 0, mutex |-> NULL, finished |-> 0, valueSize |-> 0,
           value |-> NULL, buf |-> 0, result |-> 0, id |-> 0,
           spc |-> "none", kpc |-> "none",
           wpc |-> [w \in Waiters |-> "none"],
           warg |-> [w \in Waiters |-> "none"],
           ret |-> [w \in Waiters |-> NULL],
           seen |-> [w \in Waiters |-> 0],
           early |-> [w \in Waiters |-> FALSE]]

\* _yrt_spawn_future up to _yrt_thread_create (l. 8-18): the content is
\* allocated and filled. The closure is one that will leave r in its buffer
SpawnInit(valueSize, r) ==
    /\ fut.spc = "none"
    /\ fut' = [fut EXCEPT !.wait = SemInit, !.mutex = NULL, !.finished = 0,
                          !.valueSize = valueSize, !.value = NULL,
                          !.result = r, !.spc = "create"]

\* "_yrt_thread_create (&result.id, NULL, &_yrt_future_main, result.content)" (l. 20)
SpawnCreate ==
    /\ fut.spc = "create"
    /\ fut' = [fut EXCEPT !.id = WorkerId, !.kpc = "post", !.spc = "wait"]

\* sem_wait (&content-> wait): it returns once it has taken a unit
sem_wait(f) == f.wait > 0

\* "_yrt_thread_sem_wait (&result.content-> wait); return result;" (l. 21-23)
SpawnWait ==
    /\ fut.spc = "wait"
    /\ sem_wait(fut)
    /\ fut' = [fut EXCEPT !.wait = @ - 1, !.spc = "returned"]

\* _yrt_future_main: the first "_yrt_thread_sem_post (&content-> wait)" (l. 44)
MainPost ==
    /\ fut.kpc = "post"
    /\ fut' = [fut EXCEPT !.wait = @ + 1, !.kpc = "closure"]

\* _yrt_future_main: the call of the closure (l. 46-56), with a buffer of
\* valueSize bytes the closure fills, or with no buffer
MainClosure ==
    /\ fut.kpc = "closure"
    /\ fut' = IF fut.valueSize # 0
              THEN [fut EXCEPT !.buf = fut.result, !.kpc = "value"]
              ELSE [fut EXCEPT !.kpc = "finished"]

\* "content-> value = data" (l. 52)
MainValue ==
    /\ fut.kpc = "value"
    /\ fut' = [fut EXCEPT !.value = DataPtr, !.kpc = "finished"]

\* "content-> finished = 1" (l. 58)
MainFinished ==
    /\ fut.kpc = "finished"
    /\ fut' = [fut EXCEPT !.finished = 1, !.kpc = "signal"]

\* the second "_yrt_thread_sem_post (&content-> wait)" (l. 59)
MainSignal ==
    /\ fut.kpc = "signal"
    /\ fut' = [fut EXCEPT !.wait = @ + 1, !.kpc = "done"]

\* the closure has returned
ClosureReturned == fut.kpc \in {"value", "finished", "signal", "done"}

\* a waiter that takes every future for finished
NotFinishedNever(f) == FALSE

\* "if (!f.content-> finished)" (l. 33)
NotFinished(f) == f.finished = 0

\* _yrt_wait_future is called (l. 26-30). A thread holds the spawned future
\* once _yrt_spawn_future has returned it; a future of content NULL is there
\* from the start. selfId is 0 in every thread and is not the id of a worker
WaitCall(w, a) ==
    /\ fut.wpc[w] = "none"
    /\ a = "spawned" => fut.spc = "returned"
    /\ fut' = IF a = "null"
              THEN [fut EXCEPT !.wpc[w] = "returned", !.warg[w] = a, !.ret[w] = NULL]
              ELSE IF selfId(w) = fut.id
                   THEN [fut EXCEPT !.wpc[w] = "terminated", !.warg[w] = a]
                   ELSE [fut EXCEPT !.wpc[w] = "lock", !.warg[w] = a]

\* "_yrt_thread_mutex_lock (&f.content-> mutex)" (l. 32)
WaitLock(w) ==
    /\ fut.wpc[w] = "lock"
    /\ fut.mutex = NULL
    /\ fut' = [fut EXCEPT !.mutex = w, !.wpc[w] = "test"]

\* "if (!f.content-> finished)" (l. 33)
WaitTest(w) ==
    /\ fut.wpc[w] = "test"
    /\ fut' = [fut EXCEPT !.wpc[w] = IF NotFinished(fut) THEN "wait" ELSE "unlock"]

\* "_yrt_thread_sem_wait (&f.content-> wait)" (l. 34), the mutex held
WaitSem(w) ==
    /\ fut.wpc[w] = "wait"
    /\ sem_wait(fut)
    /\ fut' = [fut EXCEPT !.wait = @ - 1, !.wpc[w] = "unlock"]

\* "_yrt_thread_mutex_unlock (&f.content-> mutex)" (l. 36)
WaitUnlock(w) ==
    /\ fut.wpc[w] = "unlock"
    /\ fut' = [fut EXCEPT !.mutex = NULL, !.wpc[w] = "return"]

\* "return f.content-> value" (l. 38): the caller has the pointer, and what
\* the buffer holds. early: the worker had not set finished by then
WaitReturn(w) ==
    /\ fut.wpc[w] = "return"
    /\ fut' = [fut EXCEPT !.ret[w] = fut.value,
                          !.seen[w] = IF fut.value = NULL THEN 0 ELSE fut.buf,
                          !.early[w] = fut.finished = 0,
                          !.wpc[w] = "returned"]

\* the steps of the worker but the run of the closure
MainStep == MainPost \/ MainValue \/ MainFinished \/ MainSignal

\* the steps of a waiter inside _yrt_wait_future
WaitStep(w) == WaitLock(w) \/ WaitTest(w) \/ WaitSem(w) \/ WaitUnlock(w) \/ WaitReturn(w)

NextFut ==
    \/ \E valueSize \in ValueSizes, r \in Results : SpawnInit(valueSize, r) /\ UNCHANGED offFut
    \/ SpawnCreate /\ UNCHANGED offFut
    \/ SpawnWait /\ UNCHANGED offFut
    \/ MainPost /\ UNCHANGED offFut
    \/ MainClosure /\ UNCHANGED offFut
    \/ MainValue /\ UNCHANGED offFut
    \/ MainFinished /\ UNCHANGED offFut
    \/ MainSignal /\ UNCHANGED offFut
    \/ \E w \in Waiters, a \in WaitArgs : WaitCall(w, a) /\ UNCHANGED offFut
    \/ \E w \in Waiters : WaitLock(w) /\ UNCHANGED offFut
    \/ \E w \in Waiters : WaitTest(w) /\ UNCHANGED offFut
    \/ \E w \in Waiters : WaitSem(w) /\ UNCHANGED offFut
    \/ \E w \in Waiters : WaitUnlock(w) /\ UNCHANGED offFut
    \/ \E w \in Waiters : WaitReturn(w) /\ UNCHANGED offFut

\* the state of the process when main starts: no exception in flight, an empty
\* registry, no frame being unwound
Init ==
    /\ InitExc /\ InitNest /\ InitReg /\ InitLsda /\ InitLeb /\ InitDec /\ InitPanic
    /\ InitFut

SpecExc == Init /\ [][NextExc]_vars

SpecReg == Init /\ [][NextReg]_vars

SpecLsda == Init /\ [][NextLsda]_vars

SpecLeb == Init /\ [][NextLeb]_vars

SpecDec == Init /\ [][NextDec]_vars

SpecCleanup == Init /\ [][NextCleanup]_vars

SpecNest == Init /\ [][NextNest]_vars

SpecPanic == Init /\ [][NextPanic]_vars

SpecFut == Init /\ [][NextFut]_vars

\* the scheduler lets the worker go on once its closure has returned, and lets
\* every thread that is inside _yrt_wait_future go on; a closure may run
\* for ever, and no thread has to call _yrt_wait_future
SpecFutFair ==
    /\ SpecFut
    /\ WF_vars(MainStep /\ UNCHANGED offFut)
    /\ \A w \in Waiters : WF_vars(WaitStep(w) /\ UNCHANGED offFut)

\* the scheduler lets every thread that is in a termination path go on
SpecPanicFair ==
    /\ SpecPanic
    /\ \A t \in Threads : WF_vars(PanicStep(t) /\ UNCHANGED offPanic)


(***************************************************************************)
(* Claims about the registry of src/runtime/src/throw.c, under SpecReg     *)
(***************************************************************************)
\* exception state of a node: nothing on its catcher stack, no data stored
Retired(n) == n.stack = <<>> /\ n.data = NULL

\* C4: at most one registry node per thread. Under every interleaving the
\* registry never holds two nodes with the same thread id; a thread is on its
\* way through _yrt_insert_thread only while the registry holds no node of its
\* id; and a _yrt_exc_push whose lookup ends while the registry holds a node of
\* the thread's id pushes its catcher on that very node.
C4_OneNodePerThread ==
    [][ /\ \A t \in RegThreads : Cardinality(NodesOf(t))' <= 1
        /\ \A t \in RegThreads :
             pc'[t] \in {"ins_lock", "ins_link1", "ins_link2"} => NodesOf(t)' = {}
        /\ \A t \in RegThreads :
             (pc[t] = "gs_scan" /\ pc'[t] = "idle" /\ op[t] = "push") =>
                \E n \in Nodes :
                   /\ NodesOf(t) = {n}
                   /\ NodesOf(t)' = {n}
                   /\ Len(tnode'[n].stack) = Len(tnode[n].stack) + 1 ]_vars

\* C4 witness: a thread whose throw was taken by a catcher: its get-or-create
\* found the node its try block had created, while another thread has a node in
\* the registry too.
C4_Witness ==
    \E t \in RegThreads :
        /\ pc[t] = "idle"
        /\ pending[t]
        /\ Cardinality(NodesOf(t)) = 1
        /\ Len(RegChain) >= 2

\* C6: a node leaves the registry only when its thread has no unresolved
\* exception: at the step that unlinks it, its catcher stack is empty, it
\* stores no data, and its thread has no exception in flight.
C6_RemovedOnlyWhenResolved ==
    [][ \A n \in Nodes :
          (n \in SeqElems(RegChain) /\ n \notin SeqElems(RegChain)') =>
             /\ Retired(tnode[n])
             /\ tnode[n].id \in RegThreads
             /\ ~pending[tnode[n].id] ]_vars

\* C6 witness: the node of a thread that threw and caught an exception earlier
\* (the node still names the type thrown) has just been unlinked.
C6_Witness ==
    \E t \in RegThreads :
        /\ pc[t] = "rm_free"
        /\ tnode[cur[t]].id = t
        /\ tnode[cur[t]].info # NULL

\* C7: registry cleanup. A thread that is in no call, in no try block and has
\* no exception in flight (its last exception has been retired) has no node in
\* the registry.
C7_RegistryCleanup ==
    \A t \in RegThreads :
        (pc[t] = "idle" /\ tries[t] = 0 /\ ~pending[t]) => NodesOf(t) = {}

\* C9: the structural operations on the registry are mutually exclusive. A
\* thread inserting, removing or scanning holds _yrt_exc_mutex; the cursor of a
\* scan is on a linked node, never on one being inserted or released; the
\* registry is an acyclic chain of allocated nodes, exactly those inserted
\* and not yet removed.
C9_RegistryMutex ==
    /\ \A t \in RegThreads : pc[t] \in RegCritical => mutex = t
    /\ \A t \in RegThreads :
         (pc[t] \in {"gs_scan", "rm_scan", "rm_splice"} /\ cur[t] # NULL) =>
            cur[t] \in SeqElems(RegChain)
    /\ Cardinality(SeqElems(RegChain)) = Len(RegChain)
    /\ SeqElems(RegChain) \subseteq live
    /\ SeqElems(RegChain) = registered

\* C9 witness: a removal scan of one thread stands on the node of another
\* thread, which waits for the mutex to insert or remove.
C9_Witness ==
    \E t, u \in RegThreads :
        /\ t # u
        /\ pc[t] = "rm_scan"
        /\ cur[t] # NULL
        /\ tnode[cur[t]].id = u
        /\ pc[u] \in {"ins_lock", "rm_lock"}

(***************************************************************************)
(* Claims about the LSDA interpreter of src/rt/except/personnality.c,      *)
(* under SpecLsda                                                          *)
(***************************************************************************)
\* the effective instruction pointer of the running call, relative to the
\* region start
RelIp == frame.ip - ctx.start

\* the entries of the call-site table whose range holds the effective ip
Covering ==
    {k \in 1..Len(ctx.table) :
        /\ ctx.table[k].start <= RelIp
        /\ RelIp < ctx.table[k].start + ctx.table[k].len}

\* C10: call-site lookup correctness. For every sorted call-site table without
\* overlap and every effective ip, when the call-site loop is over: if an entry
\* covers ip, the landing pad found is that entry's (region start + pad; none
\* when its pad is 0) and the action record found is that entry's (none when
\* its action field is 0); if no entry covers ip, no landing pad and no action
\* record are found. For the table [(0,10,L1,A1), (10,5,0,0), (15,8,L2,0)]:
\* with ip in [10,15) the personality returns continue-unwinding; with ip in
\* [15,23) it finds L2 and no action record, a cleanup only (continue in the
\* search phase, L2 installed with handler 0 in the cleanup phase); with ip in
\* [0,10) it finds L1 and the first action record, and the search phase
\* reports the handler.
C10_CallSiteLookup ==
    /\ LookupDone =>
         IF Covering # {}
         THEN LET e == ctx.table[CHOOSE k \in Covering : TRUE]
              IN /\ Cardinality(Covering) = 1
                 /\ frame.landingPad = IF e.pad = 0 THEN 0 ELSE ctx.start + e.pad
                 /\ frame.actionRecord =
                       IF e.action = 0 THEN NULL ELSE frame.actionTable + e.action - 1
         ELSE frame.landingPad = 0 /\ frame.actionRecord = NULL
    /\ (/\ frame.pc = "returned"
        /\ frame.actions # UA_CLEANUP_PHASE + UA_HANDLER_FRAME
        /\ IsExample(ctx.table)) =>
         /\ RelIp \in 10..14 => frame.result = URC_CONTINUE_UNWIND
         /\ RelIp \in 15..22 =>
              /\ frame.landingPad = ctx.start + RangePad(3)
              /\ frame.actionRecord = NULL
              /\ frame.saw_cleanup /\ ~frame.saw_handler
              /\ IF BitSet(frame.actions, UA_SEARCH_PHASE)
                 THEN frame.result = URC_CONTINUE_UNWIND
                 ELSE /\ frame.result = URC_INSTALL_CONTEXT
                      /\ uw.regs.ip = ctx.start + RangePad(3)
                      /\ uw.regs.gr1 = 0
         /\ RelIp \in 0..9 =>
              /\ frame.landingPad = ctx.start + RangePad(1)
              /\ frame.actionRecord = frame.actionTable
              /\ BitSet(frame.actions, UA_SEARCH_PHASE) =>
                    /\ frame.result = URC_HANDLER_FOUND
                    /\ frame.handler = 1

\* C10 witness: on the table of the example the loop has passed two entries
\* and stopped on the third, whose landing pad takes two bytes.
C10_Witness ==
    /\ LookupDone
    /\ IsExample(ctx.table)
    /\ RelIp = 16
    /\ frame.landingPad = ctx.start + RangePad(3)
    /\ frame.actionRecord = NULL

(***************************************************************************)
(* Claims about the two phases and the action table, under SpecLsda        *)
(***************************************************************************)
HandlerFrame == UA_CLEANUP_PHASE + UA_HANDLER_FRAME

\* the entry of the table that covers the effective ip, when there is one
CoveringEntry == ctx.table[CHOOSE k \in Covering : TRUE]

\* the call of the personality that returned last ran the action-table
\* lookup, from the record that the covering entry names
LookupRan ==
    /\ frame.pc = "returned"
    /\ frame.actions # HandlerFrame
    /\ frame.actionRecord # NULL

FirstRecord == RecordOf(CoveringEntry.action)

\* the filters of a chain, from record i on
RECURSIVE ChainFilters(_)
ChainFilters(i) ==
    <<ActionRecords[i].filter>>
    \o (IF ActionRecords[i].next = 0 THEN <<>> ELSE ChainFilters(ActionRecords[i].next))

\* the first filter > 0 of a sequence of filters, 0 when it has none
RECURSIVE FirstHandler(_)
FirstHandler(fs) ==
    IF fs = <<>> THEN 0
    ELSE IF Head(fs) > 0 THEN Head(fs) ELSE FirstHandler(Tail(fs))

\* the walk of a chain from record i: it stops at the first record with a
\* filter > 0, unless such records are passed over, or at the end of the chain
RECURSIVE Walk(_, _, _)
Walk(i, sc, passHandlers) ==
    LET r == ActionRecords[i]
        sc2 == sc \/ r.filter = 0
    IN IF r.filter > 0 /\ ~passHandlers
       THEN [handler |-> r.filter, saw_handler |-> TRUE, saw_cleanup |-> sc]
       ELSE IF r.next = 0
            THEN [handler |-> 0, saw_handler |-> FALSE, saw_cleanup |-> sc2]
            ELSE Walk(r.next, sc2, passHandlers)

\* what the lookup of the last call gave
Looked ==
    [handler |-> frame.handler, saw_handler |-> frame.saw_handler,
     saw_cleanup |-> frame.saw_cleanup]

\* C17: a call with the cleanup-phase handler-frame action parses nothing of
\* the LSDA: when it returns, it returns install-context, and the header
\* pointer, the handler index and the landing pad it has put in the two
\* result registers and in the instruction pointer are the values that the
\* search-phase call saved in the header for this frame.
C17_PhaseTwoInstallsSaved ==
    (frame.actions = HandlerFrame /\ frame.pc = "returned") =>
        /\ frame.result = URC_INSTALL_CONTEXT
        /\ uw.regs = [gr0 |-> 1, gr1 |-> saved.handler, ip |-> saved.landingPad]
        /\ frame.p = NULL
        /\ frame.actionTable = NULL
        /\ frame.actionRecord = NULL
        /\ saved.lsda = ctx.lsda
        /\ saved.cfa = ctx.cfa

\* C17 witness: the handler 2, found behind a cleanup record in the search
\* phase, has been installed with its landing pad.
C17_Witness ==
    /\ frame.actions = HandlerFrame
    /\ frame.pc = "returned"
    /\ uw.regs.gr1 = 2
    /\ uw.regs.ip = RegionStart + RangePad(2)
    /\ saved.handler = 2

\* C18: in the search phase, for a frame whose covering entry has an action
\* chain with a record of filter > 0, the personality saves the first such
\* filter of the chain, the frame's lsda, its landing pad and its cfa in the
\* header, and returns handler-found, which ends the search.
C18_SearchCommits ==
    (/\ frame.pc = "returned"
     /\ BitSet(frame.actions, UA_SEARCH_PHASE)
     /\ Covering # {}
     /\ CoveringEntry.action # 0
     /\ FirstHandler(ChainFilters(FirstRecord)) > 0) =>
        /\ frame.result = URC_HANDLER_FOUND
        /\ uw.phase = "cleanup"
        /\ saved = [handler |-> FirstHandler(ChainFilters(FirstRecord)),
                    lsda |-> ctx.lsda,
                    landingPad |-> IF CoveringEntry.pad = 0 THEN 0
                                   ELSE ctx.start + CoveringEntry.pad,
                    cfa |-> ctx.cfa]

\* C19: when no entry covers the ip, or the covering entry has the landing
\* pad zero, whatever its action field, the personality returns
\* continue-unwinding; the search phase never returns handler-found with a
\* landing pad of zero.
C19_NoPadContinues ==
    (frame.pc = "returned" /\ frame.actions # HandlerFrame /\ frame.lsda # NULL) =>
        /\ (Covering = {} \/ CoveringEntry.pad = 0) =>
              frame.result = URC_CONTINUE_UNWIND
        /\ frame.result = URC_HANDLER_FOUND => frame.landingPad # 0

C13_CleanupCallback ==
    [][last'.op = "cleanup" =>
         IF last'.arg \notin {URC_FOREIGN_EXCEPTION_CAUGHT, URC_NO_REASON}
         THEN /\ aborted'
              /\ last'.res = "abort"
              /\ LastOf(err') = "uncaught exception"
              /\ hdr' = hdr
              /\ heap' = heap
         ELSE /\ ~aborted'
              /\ last'.res = "return"
              /\ err' = err
              /\ hdr'[last'.h] = ZeroHeader
              /\ \A h \in Headers \ {last'.h} : hdr'[h] = hdr[h]
              /\ heap' = heap \ {last'.h}
              /\ last'.h # EH => last'.h \in heap]_vars

\* C13 witness: a heap header was destroyed with the code no-reason while
\* the embedded slot is still in flight.
C13_Witness ==
    /\ last.op = "cleanup"
    /\ last.arg = URC_NO_REASON
    /\ last.res = "return"
    /\ last.h # EH
    /\ hdr[EH].object # NULL

(***************************************************************************)
(* Claims about the LEB128 readers, under SpecLeb                          *)
(***************************************************************************)
\* the terminal byte of the encoding that was read
LebLastByte == leb.enc[Len(leb.enc)]

\* C11: ULEB128 round trip. For every unsigned value below 2^32, reading its
\* ULEB128 encoding gives the value back, bit for bit, and leaves the cursor
\* right after the last byte of the encoding.
C11_UlebRoundTrip ==
    (leb.stage = "read" /\ leb.kind = "uleb") =>
        /\ leb.res.term = ""
        /\ leb.res.val = leb.v
        /\ leb.res.p = leb.q + Len(leb.enc)

\* C11 witness: the largest value below 2^32 of the model has been read from
\* its five bytes.
C11_Witness ==
    /\ leb.stage = "read"
    /\ leb.kind = "uleb"
    /\ leb.v = LebBits
    /\ MaxLebBit \in leb.res.val
    /\ Len(leb.enc) = 5

\* C12: SLEB128 round trip. For every signed value, negative, zero or
\* positive, reading its SLEB128 encoding gives the value back as a full word,
\* the bits above the encoding being 1 exactly when bit 0x40 of the terminal
\* byte is set, and leaves the cursor right after the last byte.
C12_SlebRoundTrip ==
    (leb.stage = "read" /\ leb.kind = "sleb") =>
        /\ leb.res.term = ""
        /\ leb.res.val = leb.v
        /\ leb.res.p = leb.q + Len(leb.enc)
        /\ \A i \in (7 * Len(leb.enc))..(WordBits - 1) :
              i \in leb.res.val <=> BitSet(LebLastByte, 64)

\* C12 witness: a negative value of several bytes has been read.
C12_Witness ==
    /\ leb.stage = "read"
    /\ leb.kind = "sleb"
    /\ (WordBits - 1) \in leb.v
    /\ Len(leb.enc) >= 3
    /\ (WordBits - 1) \in leb.res.val
    /\ BitSet(LebLastByte, 64)

(***************************************************************************)
(* Claims about the termination paths, under SpecPanic                     *)
(***************************************************************************)
HasPrinted(t, text) == \E i \in 1..Len(printed[t]) : printed[t][i] = text

\* a call of terminate never comes back to the code that made it
TerminateNeverReturns == \A t \in Threads : InTerminate(t) => at[t] # UserCode

\* C14: a call of terminate made while an earlier call of terminate is in
\* progress prints the recursion warning and aborts at once: it prints no
\* message of its own and starts no stack trace; and no call of terminate
\* returns.
C14_TerminateGuard ==
    /\ TerminateNeverReturns
    /\ \A t \in Threads :
         tcalls[t] = "nested" =>
            /\ at[t] = "terminate_test"
            /\ ~HasPrinted(t, "terminate")
            /\ path[t] = "none"
            /\ printed[t] # <<>> =>
                 /\ printed[t] = <<"terminating called recursively">>
                 /\ ended = "abort"

\* C15: the first SIGSEGV delivered in the process takes the path that
\* prints a stack trace (_yrt_exc_panic_seg_fault), every later one takes
\* the path without trace (_yrt_exc_panic_no_trace).
C15_FirstFaultOnly ==
    \A k \in 1..Len(sigs) :
        /\ sigs[k].took = "trace" => k = 1
        /\ sigs[k].took = "no_trace" => k > 1

\* a thread that entered the handler does not stay in it for ever: the
\* process ends
C15_HandlerEnds == \A t \in Threads : handling[t] ~> ended # "no"

\* C16: over a whole execution the resolution of a stack trace is started
\* at most once: a fault during a termination path starts no second one.
C16_OneResolution == resolutions <= 1

(***************************************************************************)
(* Claims about the frames of the two phases, under SpecLsda               *)
(***************************************************************************)
\* the covering entry has a landing pad and no action record
CleanupOnly ==
    /\ Covering # {}
    /\ CoveringEntry.pad # 0
    /\ CoveringEntry.action = 0

\* C21: for a frame whose covering call-site entry has a landing pad and no
\* action record, the search phase returns continue-unwinding, writes nothing
\* in the header and leaves the registers; the cleanup phase, handler-frame
\* flag not set, returns install-context with the header pointer and the
\* handler index 0 in the result registers and the entry's landing pad as
\* the instruction pointer.
C21_CleanupOnlyFrame ==
    [][(LookupDone /\ CleanupOnly /\ frame'.pc \in {"returned", "terminated"}) =>
          /\ frame'.pc = "returned"
          /\ IF BitSet(frame.actions, UA_SEARCH_PHASE)
             THEN /\ frame'.result = URC_CONTINUE_UNWIND
                  /\ saved' = saved
                  /\ uw'.regs = uw.regs
             ELSE /\ frame'.result = URC_INSTALL_CONTEXT
                  /\ saved' = saved
                  /\ uw'.regs = [gr0 |-> 1, gr1 |-> 0,
                                 ip |-> ctx.start + CoveringEntry.pad]]_vars

\* C21 witness: after a search that went on past the frame, the cleanup
\* phase has installed the landing pad of the third range, which has no
\* action record.
C21_Witness ==
    /\ frame.pc = "returned"
    /\ frame.actions = UA_CLEANUP_PHASE
    /\ CleanupOnly
    /\ CoveringEntry.start = RangeStart(3)
    /\ saved = NoSave
    /\ uw.ret = URC_INSTALL_CONTEXT
    /\ uw.regs = [gr0 |-> 1, gr1 |-> 0, ip |-> RegionStart + RangePad(3)]

\* the entries of the table whose range holds the offset x of the region
EntriesAt(x) ==
    {k \in 1..Len(ctx.table) :
        ctx.table[k].start <= x /\ x < ctx.table[k].start + ctx.table[k].len}

\* what the call-site loop has found is what entry k holds
FoundEntry(k) ==
    /\ frame.landingPad = IF ctx.table[k].pad = 0 THEN 0
                          ELSE ctx.start + ctx.table[k].pad
    /\ frame.actionRecord = IF ctx.table[k].action = 0 THEN NULL
                            ELSE frame.actionTable + ctx.table[k].action - 1

\* the ip that the unwinder reports, as an offset of the region
ReportedIp == ctx.ip - ctx.start

\* C22: when the unwinder reports the ip as a return address (not flagged
\* as before-instruction) the call-site lookup is made with ip - 1: the entry
\* found is the one whose range holds ip - 1, so that a return address equal
\* to start + length of an entry is attributed to that entry and not to the
\* one that follows; when the ip is flagged as before-instruction the entry
\* found is the one whose range holds ip itself.
C22_ReturnAddress ==
    LookupDone =>
        LET x == IF ctx.ip_before_insn = 0 THEN ReportedIp - 1 ELSE ReportedIp
        IN /\ frame.ip = ctx.start + x
           /\ \A k \in EntriesAt(x) : FoundEntry(k)
           /\ EntriesAt(x) = {} => frame.landingPad = 0 /\ frame.actionRecord = NULL
           /\ \A k \in 1..Len(ctx.table) :
                 (/\ ctx.ip_before_insn = 0
                  /\ ReportedIp = ctx.table[k].start + ctx.table[k].len) => FoundEntry(k)

\* C22 witness: the return address is the first byte of the second range,
\* which has a landing pad of its own; the lookup has found the catch of the
\* first range, that ends there.
C22_Witness ==
    /\ LookupDone
    /\ ctx.ip_before_insn = 0
    /\ ReportedIp = RangeStart(2)
    /\ Len(ctx.table) >= 2
    /\ ctx.table[1] = Entry(1, "catch")
    /\ ctx.table[2] = Entry(2, "cleanup")
    /\ frame.landingPad = ctx.start + RangePad(1)
    /\ frame.actionRecord = frame.actionTable

\* the unwinder is about to call the personality for the frame that the
\* search phase has found
HandlerFrameCallDue ==
    /\ uw.phase = "cleanup"
    /\ uw.ret = URC_HANDLER_FOUND
    /\ frame.pc = "returned"

\* C23: whenever the personality is called with the cleanup-phase
\* handler-frame action and the landing pad restored from the header is zero,
\* it ends in _yrt_exc_terminate with "unwind error": it returns no reason
\* code and writes neither the result registers nor the instruction pointer.
C23_MissingPadFatal ==
    [][(HandlerFrameCallDue /\ saved.landingPad = 0 /\ frame' # frame) =>
          /\ frame'.actions = HandlerFrame
          /\ frame'.pc = "terminated"
          /\ uw'.term = "unwind error"
          /\ uw'.ret = uw.ret
          /\ uw'.regs = uw.regs
          /\ saved' = saved]_vars

\* C23 witness: the search phase had found a handler in a frame whose
\* call-site entry has no landing pad, and the call for the handler frame has
\* ended in the fatal error.
C23_Witness ==
    /\ frame.actions = HandlerFrame
    /\ frame.pc = "terminated"
    /\ uw.term = "unwind error"
    /\ saved.landingPad = 0
    /\ saved.handler > 0
    /\ uw.regs = [gr0 |-> 0, gr1 |-> 0, ip |-> 0]

(***************************************************************************)
(* Claims about the encoded-value decoder, under SpecDec                   *)
(***************************************************************************)
\* the value shape of an encoding byte, and its relocation kind
ShapeOf(encoding) == encoding % 16
RelocOf(encoding) == ((encoding \div 16) % 8) * 16

\* the shapes the reader has a case for: pointer-width, ULEB128, SLEB128,
\* and 2, 4 or 8 bytes, unsigned or signed
ImplementedShapes ==
    {DW_EH_PE_absptr, DW_EH_PE_uleb128, DW_EH_PE_sleb128,
     DW_EH_PE_udata2, DW_EH_PE_udata4, DW_EH_PE_udata8,
     DW_EH_PE_sdata2, DW_EH_PE_sdata4, DW_EH_PE_sdata8}

\* the relocation kinds the decoder has a case for
ImplementedRelocs ==
    {DW_EH_PE_absptr, DW_EH_PE_pcrel, DW_EH_PE_textrel, DW_EH_PE_datarel,
     DW_EH_PE_funcrel, DW_EH_PE_aligned}

\* the call of the decoder returned to its caller
DecReturned == dec.op # "none" /\ dec.out.term = ""

\* C24: for every encoding byte but the marker of an omitted value, a call
\* of the decoder that returns has decoded an implemented shape (size-of and
\* value read) and an implemented relocation kind (base-of and value read);
\* every other call ends in the fatal termination. Size-of is held to the
\* shape only, base-of to the relocation kind only.
C24_UnimplementedFatal ==
    (DecReturned /\ dec.encoding # DW_EH_PE_omit) =>
        /\ dec.op \in {"size", "read"} => ShapeOf(dec.encoding) \in ImplementedShapes
        /\ dec.op \in {"base", "read"} => RelocOf(dec.encoding) \in ImplementedRelocs

\* the part of C24 that is about the value read alone
C24_ReadUnimplementedFatal ==
    (DecReturned /\ dec.op = "read") =>
        /\ ShapeOf(dec.encoding) \in ImplementedShapes
        /\ RelocOf(dec.encoding) \in ImplementedRelocs

\* the shapes of fixed width, and the bytes each takes
FixedShapes ==
    {DW_EH_PE_absptr, DW_EH_PE_udata2, DW_EH_PE_udata4, DW_EH_PE_udata8,
     DW_EH_PE_sdata2, DW_EH_PE_sdata4, DW_EH_PE_sdata8}

WidthOf(fmt) ==
    CASE fmt \in {DW_EH_PE_udata2, DW_EH_PE_sdata2} -> 2
      [] fmt \in {DW_EH_PE_udata4, DW_EH_PE_sdata4} -> 4
      [] OTHER -> 8

\* the base of a relocation kind other than pc-relative
BaseOfKind(kind) ==
    CASE kind = DW_EH_PE_textrel -> DecContext.textBase
      [] kind = DW_EH_PE_datarel -> DecContext.dataBase
      [] kind = DW_EH_PE_funcrel -> DecContext.start
      [] OTHER -> 0

\* a read of a value of fixed width, under one of the relocation kinds
\* kinds
FixedRead(kinds) ==
    /\ dec.op = "read"
    /\ ShapeOf(dec.encoding) \in FixedShapes
    /\ RelocOf(dec.encoding) \in kinds

\* the read has given what a value relocated to the address rel gives
DecodedAs(rel) ==
    LET after == dec.q + WidthOf(ShapeOf(dec.encoding))
    IN IF dec.v = 0 THEN dec.out = Read(0, after, "")
       ELSE IF ~BitSet(dec.encoding, DW_EH_PE_indirect)
            THEN dec.out = Read(rel, after, "")
            ELSE rel \in 1..(DecMemLen - PtrSize + 1) =>
                   dec.out = Read(yrt_exc_read_unaligned(dec.m, rel, PtrSize), after, "")

\* C26: a value of fixed width with the raw value v # 0, read at the byte
\* position q, decodes to v + q under the pc-relative kind and to v + base
\* under every other kind (the text-, data- or function-relative base, 0 for
\* absolute); with the indirect flag the result is the word stored at that
\* address; the raw value 0 decodes to 0; the cursor is moved by the width of
\* the value.
C26_RelocationBases ==
    FixedRead({DW_EH_PE_absptr, DW_EH_PE_pcrel, DW_EH_PE_textrel,
               DW_EH_PE_datarel, DW_EH_PE_funcrel}) =>
        DecodedAs(IF RelocOf(dec.encoding) = DW_EH_PE_pcrel
                  THEN dec.v + dec.q
                  ELSE dec.v + BaseOfKind(RelocOf(dec.encoding)))

\* the part of C26 that is about the kinds other than pc-relative
C26_OtherKinds ==
    FixedRead({DW_EH_PE_absptr, DW_EH_PE_textrel, DW_EH_PE_datarel,
               DW_EH_PE_funcrel}) =>
        DecodedAs(dec.v + BaseOfKind(RelocOf(dec.encoding)))

\* what the pc-relative kind gives: the raw value is added to the address of
\* the variable that holds the cursor
C26_PcRelativeToCursorAddr ==
    FixedRead({DW_EH_PE_pcrel}) => DecodedAs(dec.v + DecCursorAddr)

(***************************************************************************)
(* Claims about nested exceptions and the embedded slot, under SpecNest    *)
(***************************************************************************)
\* the headers linked from the global stack, topmost first
NestChain == Chain(hdr, stack, Cardinality(Headers) + 1)

\* the payloads a header carries, first to last
PayloadChain(h) == ObjChain(nest.onext, hdr[h].object, MaxPayload + 1)

\* the header under the topmost one
Older == hdr[stack].next

\* the personality is called for the handler frame of the exception thrown
\* last, both it and the exception thrown before it carry a payload, and the
\* search phase found the handler of both in the same frame of the same
\* function
NestedSameContext ==
    /\ nest.at = "found"
    /\ stack # NULL
    /\ Older # NULL
    /\ Older # stack
    /\ hdr[stack].object # NULL
    /\ hdr[Older].object # NULL
    /\ hdr[Older].landingPad # 0
    /\ hdr[Older].languageSpecificData = hdr[stack].languageSpecificData
    /\ hdr[Older].canonicalFrameAddress = hdr[stack].canonicalFrameAddress

\* the call of the personality for the handler frame has returned
Resolves == nest.at = "found" /\ nest'.at = "landed"

\* C25: when the personality resolves the handler frame for the header H of
\* an exception of this runtime and H.next is the header H' of an older
\* exception in flight with the same action context, then on return the
\* payload chain of the newer exception has been appended to the end of the
\* payload chain of the older one, H carries the merged chain, and H' has
\* been unlinked from the chain of headers and retired; no payload of either
\* exception is lost.
C25_NestedChaining ==
    [][(NestedSameContext /\ Resolves) =>
          /\ PayloadChain(stack)' = PayloadChain(Older) \o PayloadChain(stack)
          /\ Older \notin SeqElems(NestChain')
          /\ hdr'[Older] = ZeroHeader
          /\ Older \notin heap']_vars

\* the part of C25 that is about the older header: it is unlinked and
\* retired
C25_OlderRetired ==
    [][(NestedSameContext /\ Resolves) =>
          /\ Older \notin SeqElems(NestChain')
          /\ hdr'[Older] = ZeroHeader
          /\ Older \notin heap']_vars

\* what the code does of the payloads: H keeps the payload chain it had, and
\* no header leads to the payload of the older exception any more
C25_OlderPayloadDropped ==
    [][(NestedSameContext /\ Resolves) =>
          /\ PayloadChain(stack)' = PayloadChain(stack)
          /\ hdr[Older].object \notin HeldPayloads']_vars

\* a throw has been given a header
Throws == nest'.throws = nest.throws + 1 /\ ~aborted'

\* no header is met twice along the chain of the stack
Acyclic(c) == \A i, j \in 1..Len(c) : c[i] = c[j] => i = j

\* C27: after any sequence of throws, catches and cleanups of the thread,
\* whatever the payloads, NULL included, a throw is given the embedded slot
\* only when the slot is not on the stack, and the stack is always a list of
\* pairwise distinct headers, without cycle.
C27_SlotExclusive ==
    [][/\ (Throws /\ nest'.thrown = EH) => EH \notin SeqElems(NestChain)
       /\ Acyclic(NestChain')]_vars

\* the part of C27 that is about the cleanup callback alone: no NULL payload
C27_SlotExclusiveCleanup ==
    [][~nest'.nulls =>
          /\ (Throws /\ nest'.thrown = EH) => EH \notin SeqElems(NestChain)
          /\ Acyclic(NestChain')]_vars

\* the part of C27 that is about the payloads that are not NULL, thrown and
\* caught
C27_SlotExclusiveNonNull ==
    [][(~nest'.nulls /\ ~nest'.cleaned) =>
          /\ (Throws /\ nest'.thrown = EH) => EH \notin SeqElems(NestChain)
          /\ Acyclic(NestChain')]_vars

(***************************************************************************)
(* Claims about the handler index and the search phase, under SpecLsda     *)
(***************************************************************************)
\* C28: whenever the action-table lookup reports a handler, the handler
\* index it returns, and that the search phase saves in the header, is
\* strictly positive: a record whose filter is negative is never reported as
\* a handler, and its filter is never the handler index.
C28_HandlerPositive ==
    /\ (LookupRan /\ frame.saw_handler) => frame.handler > 0
    /\ (frame.pc = "returned" /\ frame.result = URC_HANDLER_FOUND) => saved.handler > 0

\* the part of C28 that is about the chains without negative filter
C28_PositiveWithoutNegativeFilter ==
    (LookupRan /\ frame.saw_handler
       /\ \A i \in 1..Len(ChainFilters(FirstRecord)) : ChainFilters(FirstRecord)[i] >= 0) =>
        frame.handler > 0

\* C29: a call of the personality in the search phase returns
\* continue-unwinding or handler-found, never install-context; it writes
\* neither the result registers nor the instruction pointer, and leaves the
\* context of the frame as it is; the fields (handler, lsda, landingPad, cfa)
\* of the header are written by the call that returns handler-found only, and
\* are unchanged by every call that returns continue-unwinding.
C29_SearchNoSideEffect ==
    [][BitSet(frame'.actions, UA_SEARCH_PHASE) =>
          /\ uw'.regs = uw.regs
          /\ ctx' = ctx
          /\ frame'.pc = "returned" =>
                frame'.result \in {URC_CONTINUE_UNWIND, URC_HANDLER_FOUND}
          /\ saved' # saved =>
                /\ frame.pc # "returned"
                /\ frame'.pc = "returned"
                /\ frame'.result = URC_HANDLER_FOUND
          /\ (frame.pc # "returned" /\ frame'.pc = "returned"
                /\ frame'.result = URC_HANDLER_FOUND) =>
                saved' = [handler |-> frame'.handler, lsda |-> ctx.lsda,
                          landingPad |-> frame'.landingPad, cfa |-> ctx.cfa]]_vars

\* C29 witness: the search phase has met a frame with a cleanup: it has
\* found the landing pad, returned continue-unwinding, and left the header
\* and the registers untouched.
C29_Witness ==
    /\ frame.pc = "returned"
    /\ frame.actions = UA_SEARCH_PHASE
    /\ frame.result = URC_CONTINUE_UNWIND
    /\ frame.saw_cleanup
    /\ frame.landingPad # 0
    /\ saved = NoSave
    /\ uw.regs = [gr0 |-> 0, gr1 |-> 0, ip |-> 0]

(***************************************************************************)
(* Claims about the futures of src/rt/concurrency/future.c                 *)
(***************************************************************************)
\* the waiters that were given the spawned future
OnFuture(w) == fut.warg[w] = "spawned"

\* what the closure of the future gives: nothing, or its result in the buffer
ClosureValue == IF fut.valueSize = 0 THEN NULL ELSE DataPtr

\* no call on the future has returned before finished was set, and each has
\* returned the value of the closure
WaitAfterFinished ==
    \A w \in Waiters :
        (OnFuture(w) /\ fut.wpc[w] = "returned") =>
            /\ ~fut.early[w]
            /\ fut.finished = 1
            /\ ClosureReturned
            /\ fut.ret[w] = ClosureValue
            /\ fut.valueSize # 0 => fut.seen[w] = fut.result

\* C30: under every interleaving of _yrt_spawn_future, the worker and the
\* threads that call _yrt_wait_future on the future, no call of
\* _yrt_wait_future returns before the worker has finished the closure and
\* set finished, and it returns the value of the closure; and once the
\* closure has returned, every thread that is inside _yrt_wait_future
\* returns in the end: no wake-up of the semaphore is lost, and no thread
\* stays blocked on the mutex of the future.
C30_FutureWait ==
    /\ []WaitAfterFinished
    /\ \A w \in Waiters :
          (ClosureReturned /\ OnFuture(w)) ~> (fut.wpc[w] = "returned")

\* C30 witness: every waiter was given the future; one of them found it
\* unfinished and was woken by the worker, and all of them have returned the
\* buffer of the closure.
C30_Witness ==
    /\ \A w \in Waiters : OnFuture(w) /\ fut.wpc[w] = "returned" /\ fut.ret[w] = DataPtr
    /\ fut.kpc = "done"
    /\ fut.wait = 0
    /\ fut.buf = MaxResult

====
